---- MODULE Spec2Model ----
(***************************************************************************)
(* Incremental ingestion of a folder of markdown notes (jesktop):          *)
(* IngestionOrchestrator.ingest over LocalVectorDB and LocalImageStore,    *)
(* with the relationship graph builder, the wiki-link resolver, the image  *)
(* path resolver and the in-place JSON persistence of both stores.         *)
(*                                                                         *)
(* Paths are sequences of path components (<<"d", "B.md">> is d/B.md,      *)
(* relative to the ingested folder).  md5 and sha256 are modelled as       *)
(* injective tags <<"md5", x>> and <<"sha256", x>>.                        *)
(***************************************************************************)
EXTENDS Integers, Sequences, FiniteSets, TLC

\* ------------------------------------------------------------------ bounds
MaxTime == 2        \* file modification times range over 1..MaxTime
MaxFailures == 1    \* number of ingest passes that fail in one behaviour

\* ---------------------------------------------------------------- universe
\* The markdown notes that may be present in the folder.
NoteFiles == { <<"A.md">>, <<"d", "B.md">> }

\* Files that are always present: an image, the rendered PNG of a drawing,
\* the drawing itself and the drawing's markdown source.
ImageFiles == << <<"p.png">>, <<"E.excalidraw.png">> >>
ExcalidrawFiles == << <<"E.excalidraw">> >>
ExcalidrawMdFiles == { <<"E.excalidraw.md">> }

\* Bytes of the files that are read as images.
FileBytes(path) ==
    CASE path = <<"p.png">> -> "bytes_p"
      [] path = <<"E.excalidraw.png">> -> "bytes_e"
      [] OTHER -> "none"

\* The note bodies a file may hold.
\*   c2  "# Note\nsee [[A]], [[d/B]] and [[p]]\n\n![[p.png]] ..."  (two chunks)
\*   c3  "[[B]] [[P]] [[nope]] ![[E.excalidraw]]"                   (one chunk)
Contents == { "c2", "c3" }

NoNote == [ present |-> FALSE, mtime |-> 0, content |-> "c3" ]

\* ------------------------------------------------------------ pure helpers
Range(s) == { s[i] : i \in DOMAIN s }

Max(S) == CHOOSE x \in S : \A y \in S : y <= x

\* All enumeration orders of a finite set.
Orderings(S) ==
    { s \in [1..Cardinality(S) -> S] :
        \A i, j \in 1..Cardinality(S) : i # j => s[i] # s[j] }

\* pathlib: Path.name, Path.parent, Path.stem, str.lower
Name(path) == path[Len(path)]

Parent(path) == SubSeq(path, 1, Len(path) - 1)

StemOf(name) ==
    CASE name = "A.md" -> "A"
      [] name = "B.md" -> "B"
      [] name = "p.png" -> "p"
      [] name = "p.md" -> "p"
      [] name = "P.md" -> "P"
      [] name = "nope.md" -> "nope"
      [] name = "E.excalidraw.png" -> "E.excalidraw"
      [] name = "E.excalidraw.md" -> "E.excalidraw"
      [] name = "E.excalidraw" -> "E"
      [] OTHER -> name

PathStem(path) == StemOf(Name(path))

LowerName(name) ==
    CASE name = "A" -> "a"
      [] name = "B" -> "b"
      [] name = "P" -> "p"
      [] name = "E" -> "e"
      [] name = "A.md" -> "a.md"
      [] name = "B.md" -> "b.md"
      [] name = "E.excalidraw" -> "e.excalidraw"
      [] name = "E.excalidraw.png" -> "e.excalidraw.png"
      [] OTHER -> name

Lower(path) == [ i \in DOMAIN path |-> LowerName(path[i]) ]

\* f"{link}.md"
WithMd(link) ==
    LET n == Name(link)
        md == CASE n = "A" -> "A.md"
                [] n = "B" -> "B.md"
                [] n = "p" -> "p.md"
                [] n = "P" -> "P.md"
                [] n = "nope" -> "nope.md"
                [] OTHER -> "other.md"
    IN  Parent(link) \o << md >>

\* f"{ref}.png"
WithPng(ref) ==
    LET n == Name(ref)
        png == CASE n = "E.excalidraw" -> "E.excalidraw.png"
                 [] OTHER -> "other.png"
    IN  Parent(ref) \o << png >>

\* Dictionaries as functions.
Put(m, k, v) == [ x \in (DOMAIN m) \cup {k} |-> IF x = k THEN v ELSE m[x] ]

Remove(m, S) == [ x \in (DOMAIN m) \ S |-> m[x] ]

EmptyMap == Remove(<< >>, {})

\* ---------------------------------------------------- the files on disk
AllNotePaths(fld) == { f \in NoteFiles : fld[f].present }

\* The files that exist under the ingested folder.
Disk(fld) ==
    AllNotePaths(fld) \cup Range(ImageFiles) \cup Range(ExcalidrawFiles)
        \cup ExcalidrawMdFiles

\* Path.exists(), disk being the set of the existing files.
Exists(disk, path) == path \in disk

\* ------------------------------------------------------ ContentExtractor
extract_image_paths(c) ==
    CASE c = "c2" -> << <<"p.png">> >>
      [] OTHER -> << >>

extract_excalidraw_refs(c) ==
    CASE c = "c3" -> << <<"E.excalidraw">> >>
      [] OTHER -> << >>

\* The rewritten markdown: the body with every image reference replaced by
\* /api/images/{note_id}/{path}; urls lists the rewritten references.
replace_image_paths(c, note_id) ==
    [ raw |-> c,
      urls |-> CASE c = "c2" -> << << note_id, <<"p.png">> >> >>
                 [] c = "c3" -> << << note_id, <<"E.excalidraw.png">> >> >>
                 [] OTHER -> << >> ]

\* Wiki-links of a rewritten body (image and drawing embeds are gone).
extract_wikilinks(content) ==
    CASE content.raw = "c2" -> << <<"A">>, <<"d", "B">>, <<"p">> >>
      [] content.raw = "c3" -> << <<"B">>, <<"P">>, <<"nope">> >>
      [] OTHER -> << >>

\* ------------------------------------------------------------ PathResolver
attachment_folders == << "Z - Attachements", "attachments" >>

AssetsName(stem) ==
    CASE stem = "A" -> "A.assets"
      [] stem = "B" -> "B.assets"
      [] OTHER -> "other.assets"

_resolve_relative_to_note(note_file, image_path) ==
    Parent(note_file) \o image_path

_resolve_in_note_assets(note_file, image_path) ==
    Parent(note_file) \o << AssetsName(PathStem(note_file)), Name(image_path) >>

RECURSIVE _resolve_in_attachments(_, _, _, _)
_resolve_in_attachments(disk, note_file, image_path, i) ==
    IF i > Len(attachment_folders) THEN << >>
    ELSE LET direct == << attachment_folders[i] >> \o image_path
             inAssets == << attachment_folders[i],
                            AssetsName(PathStem(note_file)),
                            Name(image_path) >>
         IN  IF Exists(disk, direct) THEN direct
             ELSE IF Exists(disk, inAssets) THEN inAssets
             ELSE _resolve_in_attachments(disk, note_file, image_path, i + 1)

_resolve_absolute(note_file, image_path) == image_path

\* << >> stands for None.
\* Faulty variant: the attachment folders are tried first.
resolve_image_path_attachments_first(disk, note_file, image_path) ==
    LET c1 == _resolve_relative_to_note(note_file, image_path)
        c2 == _resolve_in_note_assets(note_file, image_path)
        c3 == _resolve_in_attachments(disk, note_file, image_path, 1)
        c4 == _resolve_absolute(note_file, image_path)
    IN  IF c3 # << >> /\ Exists(disk, c3) THEN c3
        ELSE IF Exists(disk, c1) THEN c1
        ELSE IF Exists(disk, c2) THEN c2
        ELSE IF Exists(disk, c4) THEN c4
        ELSE << >>

resolve_image_path(disk, note_file, image_path) ==
    LET c1 == _resolve_relative_to_note(note_file, image_path)
        c2 == _resolve_in_note_assets(note_file, image_path)
        c3 == _resolve_in_attachments(disk, note_file, image_path, 1)
        c4 == _resolve_absolute(note_file, image_path)
    IN  IF Exists(disk, c1) THEN c1
        ELSE IF Exists(disk, c2) THEN c2
        ELSE IF c3 # << >> /\ Exists(disk, c3) THEN c3
        ELSE IF Exists(disk, c4) THEN c4
        ELSE << >>

\* ---------------------------------------------------------- LocalImageStore
\* Faulty variant: an id that is already stored keeps its first image.
add_image_keep_first(imgs, image) ==
    IF image.id \in DOMAIN imgs THEN imgs ELSE Put(imgs, image.id, image)

add_image(imgs, image) == Put(imgs, image.id, image)

\* The ids of the images matching (note_id, relative_path); the code returns
\* the first one in dictionary order, or None when the set is empty.
get_image_id_by_path(imgs, note_id, relative_path) ==
    { id \in DOMAIN imgs :
        imgs[id].note_id = note_id /\ imgs[id].relative_path = relative_path }

\* mimetypes.guess_type
guess_type(path) ==
    CASE Name(path) = "p.png" -> "image/png"
      [] Name(path) = "E.excalidraw.png" -> "image/png"
      [] OTHER -> "none"

_process_single_image(imgs, image_path, original_path, note_id) ==
    IF guess_type(image_path) # "image/png" THEN imgs
    ELSE add_image(imgs,
            [ id |-> << "sha256", FileBytes(image_path) >>,
              note_id |-> note_id,
              content |-> FileBytes(image_path),
              mime_type |-> guess_type(image_path),
              relative_path |-> original_path,
              absolute_path |-> image_path ])

RECURSIVE process_images_in_note(_, _, _, _, _, _)
process_images_in_note(imgs, fld, refs, i, note_id, file) ==
    IF i > Len(refs) THEN imgs
    ELSE LET resolved == resolve_image_path(Disk(fld), file, refs[i])
             next == IF resolved = << >> THEN imgs
                     ELSE _process_single_image(imgs, resolved, refs[i], note_id)
         IN  process_images_in_note(next, fld, refs, i + 1, note_id, file)

RECURSIVE process_excalidraw_refs_in_note(_, _, _, _, _, _)
process_excalidraw_refs_in_note(imgs, fld, refs, i, note_id, file) ==
    IF i > Len(refs) THEN imgs
    ELSE LET png_path == WithPng(refs[i])
             resolved == resolve_image_path(Disk(fld), file, png_path)
             next == IF resolved = << >> THEN imgs
                     ELSE _process_single_image(imgs, resolved, png_path, note_id)
         IN  process_excalidraw_refs_in_note(next, fld, refs, i + 1, note_id, file)

\* ------------------------------------------------------------ LocalVectorDB
get_all_note_ids(ns) == DOMAIN ns

\* Faulty variant: only the first chunk of the note is deleted.
delete_chunks_for_note_first_only(cs, note_id) ==
    Remove(cs, { << note_id, 0 >> })

\* Faulty variant: the chunks of the note are left in place.
delete_chunks_for_note_noop(cs, note_id) == cs

delete_chunks_for_note(cs, note_id) ==
    Remove(cs, { cid \in DOMAIN cs : cs[cid].note_id = note_id })

\* Faulty variant: the note is deleted, its chunks are not.
delete_note_keeping_chunks(db, note_id) ==
    [ notes |-> Remove(db.notes, {note_id}), chunks |-> db.chunks ]

\* Faulty variant: the chunks are deleted, the note is not.
delete_note_keeping_note(db, note_id) ==
    [ notes |-> db.notes,
      chunks |-> Remove(db.chunks,
                        { cid \in DOMAIN db.chunks : db.chunks[cid].note_id = note_id }) ]

\* delete_note on the pair (notes, chunks)
delete_note(db, note_id) ==
    [ notes |-> Remove(db.notes, {note_id}),
      chunks |-> delete_chunks_for_note(db.chunks, note_id) ]

update_note(ns, note) == Put(ns, note.id, note)

add_chunk(cs, chunk) == Put(cs, chunk.id, chunk)

\* get_notes_by_ids: the ids found, in the order of the argument
get_notes_by_ids(ns, note_ids) ==
    SelectSeq(note_ids, LAMBDA id : id \in DOMAIN ns)

\* ----------------------------------------------------- IngestionOrchestrator
\* f.name.endswith(".excalidraw.md")
EndsWithExcalidrawMd(name) == name = "E.excalidraw.md"

_generate_note_id(file) == << "md5", file >>

_get_all_markdown_files_for_ingestion(fld) ==
    { f \in AllNotePaths(fld) \cup ExcalidrawMdFiles :
        ~EndsWithExcalidrawMd(Name(f)) }

_get_modified_files(fld, ns, all_files) ==
    LET last_modified_time ==
            IF DOMAIN ns = {} THEN 0
            ELSE Max({ ns[id].modified : id \in DOMAIN ns } \cup {0})
    IN  SelectSeq(all_files, LAMBDA f : fld[f].mtime > last_modified_time)

\* A dict as the sequence of its items in insertion order.  (The bound
\* variable d makes the dictionary be evaluated once.)
DictSet(dict, k, v) ==
    CHOOSE r \in
        { IF \E i \in DOMAIN d : d[i].key = k
          THEN [ i \in DOMAIN d |-> IF d[i].key = k THEN [ key |-> k, val |-> v ]
                                                    ELSE d[i] ]
          ELSE Append(d, [ key |-> k, val |-> v ]) : d \in { dict } } : TRUE

DictHas(d, k) == \E i \in DOMAIN d : d[i].key = k

DictGet(d, k) == d[CHOOSE i \in DOMAIN d : d[i].key = k].val

\* mapping[stem] = id; mapping[name] = id; mapping[relative path] = id
MapFile(d, file, id) ==
    DictSet(DictSet(DictSet(d, << PathStem(file) >>, id),
                    << Name(file) >>, id),
            file, id)

RECURSIVE MapFiles(_, _, _, _)
MapFiles(d, files, i, kind) ==
    IF i > Len(files) THEN d
    ELSE MapFiles(MapFile(d, files[i],
                          IF kind = "md5" THEN _generate_note_id(files[i])
                          ELSE << kind, files[i] >>),
                  files, i + 1, kind)

_get_path_to_file_mapping(files) ==
    MapFiles(MapFiles(MapFiles(<< >>, files, 1, "md5"),
                      ImageFiles, 1, "image:"),
             ExcalidrawFiles, 1, "excalidraw:")

_process_file_title(file, c) ==
    IF c = "c2" THEN "Note" ELSE PathStem(file)

\* TextChunker.chunk_text on a rewritten body: the chunk texts in order.
chunk_text(content) ==
    LET n == IF content.raw = "c2" THEN 2 ELSE 1
    IN  [ i \in 1..n |-> [ of |-> content, part |-> i ] ]

embed(text) == << "vector", text >>

\* The Note built by _process_file_content.
ProcessedNote(fld, file) ==
    LET note_id == _generate_note_id(file)
    IN  [ id |-> note_id,
          title |-> _process_file_title(file, fld[file].content),
          path |-> file,
          content |-> replace_image_paths(fld[file].content, note_id),
          modified |-> fld[file].mtime,
          outbound_links |-> << >>,
          inbound_links |-> << >>,
          folder_path |-> Parent(file) ]

\* The chunks built by _process_file_content.
ProcessedChunks(fld, file) ==
    LET note == ProcessedNote(fld, file)
        texts == chunk_text(note.content)
    IN  [ i \in DOMAIN texts |->
            [ id |-> << note.id, i - 1 >>,
              note_id |-> note.id,
              title |-> note.title,
              text |-> texts[i],
              vector |-> embed(texts[i]) ] ]

\* The media store after _process_file_content has ingested file's images.
ProcessedImages(imgs, fld, file) ==
    LET c == fld[file].content
        note_id == _generate_note_id(file)
        afterImages == process_images_in_note(
                           imgs, fld, extract_image_paths(c), 1, note_id, file)
    IN  process_excalidraw_refs_in_note(
            afterImages, fld, extract_excalidraw_refs(c), 1, note_id, file)

\* The media store after the first k files of _process_modified_files.
RECURSIVE ImagesAfterFiles(_, _, _, _)
ImagesAfterFiles(imgs, fld, files, k) ==
    IF k = 0 THEN imgs
    ELSE ProcessedImages(ImagesAfterFiles(imgs, fld, files, k - 1),
                         fld, files[k])

\* --------------------------------------------------------- ReferenceResolver
IsAssetRef(id) == id[1] \in { "image:", "excalidraw:" }

\* Faulty variant: the link with ".md" appended is not tried.
_resolve_single_reference_no_md(link, note_mapping) ==
    LET byStem == SelectSeq(note_mapping,
                            LAMBDA e : << PathStem(e.key) >> = link)
    IN  IF DictHas(note_mapping, link) THEN DictGet(note_mapping, link)
        ELSE IF byStem # << >> THEN byStem[1].val
        ELSE << >>

\* The items of the mapping satisfying Test, in dictionary order.
_resolve_single_reference(link, note_mapping) ==
    LET byStem == SelectSeq(note_mapping,
                            LAMBDA e : << PathStem(e.key) >> = link)
        lenient == SelectSeq(note_mapping,
                             LAMBDA e : /\ IsAssetRef(e.val)
                                        /\ \/ Lower(e.key) = Lower(link)
                                           \/ << LowerName(PathStem(e.key)) >>
                                                = Lower(link))
    IN  IF DictHas(note_mapping, link) THEN DictGet(note_mapping, link)
        ELSE IF DictHas(note_mapping, WithMd(link))
             THEN DictGet(note_mapping, WithMd(link))
        ELSE IF byStem # << >> THEN byStem[1].val
        ELSE IF lenient # << >> THEN lenient[1].val
        ELSE << >>

RECURSIVE resolve_references(_, _, _)
resolve_references(links, i, note_mapping) ==
    IF i > Len(links) THEN << >>
    ELSE LET resolved_id == _resolve_single_reference(links[i], note_mapping)
             rest == resolve_references(links, i + 1, note_mapping)
         IN  IF resolved_id # << >> THEN << resolved_id >> \o rest ELSE rest

\* -------------------------------------------------- RelationshipGraphBuilder
\* Faulty variant: an edge for every outbound link, whatever its target.
RECURSIVE _build_note_relationships_unfiltered(_, _, _)
_build_note_relationships_unfiltered(ns, order, i) ==
    IF i > Len(order) THEN << >>
    ELSE LET note == ns[order[i]]
         IN  [ j \in DOMAIN note.outbound_links |->
                 [ source_note_id |-> note.id,
                   target_note_id |-> note.outbound_links[j],
                   relationship_type |-> "wikilink" ] ]
             \o _build_note_relationships_unfiltered(ns, order, i + 1)

\* ns: the notes handed to the builder; order: their dictionary order.
RECURSIVE _build_note_relationships(_, _, _)
_build_note_relationships(ns, order, i) ==
    IF i > Len(order) THEN << >>
    ELSE LET note == ns[order[i]]
             all == [ j \in DOMAIN note.outbound_links |->
                        [ source_note_id |-> note.id,
                          target_note_id |-> note.outbound_links[j],
                          relationship_type |-> "wikilink" ] ]
             kept == SelectSeq(all,
                        LAMBDA r : /\ r.target_note_id \in Range(order)
                                   /\ ~IsAssetRef(r.target_note_id))
         IN  kept \o _build_note_relationships(ns, order, i + 1)

\* Faulty variant: every note is put into every cluster.
_build_note_clusters_all(ns, order) ==
    [ f \in { ns[id].folder_path : id \in Range(order) } \ { << >> } |-> order ]

_build_note_clusters(ns, order) ==
    [ f \in { ns[id].folder_path : id \in Range(order) } \ { << >> } |->
        SelectSeq(order, LAMBDA id : ns[id].folder_path = f) ]

build_relationships(ns, order) ==
    [ relationships |-> _build_note_relationships(ns, order, 1),
      note_clusters |-> _build_note_clusters(ns, order) ]

\* Faulty variant: the source of every edge is appended, whatever the edge's target.
update_inbound_links_all(id, relationships) ==
    [ j \in DOMAIN relationships |-> relationships[j].source_note_id ]

\* The inbound_links of note id after update_inbound_links.
update_inbound_links(id, relationships) ==
    LET toMe == SelectSeq(relationships, LAMBDA r : r.target_note_id = id)
    IN  [ j \in DOMAIN toMe |-> toMe[j].source_note_id ]

\* _extract_and_build_relationships: the notes of `order` with their links
\* recomputed, and the graph built from them.
_extract_and_build_relationships(ns, order, note_mapping) ==
    LET linked == [ id \in Range(order) |->
                      [ ns[id] EXCEPT !.outbound_links =
                          resolve_references(extract_wikilinks(ns[id].content),
                                             1, note_mapping) ] ]
        g == build_relationships(linked, order)
    IN  [ notes |-> [ id \in Range(order) |->
                        [ linked[id] EXCEPT !.inbound_links =
                            update_inbound_links(id, g.relationships) ] ],
          graph |-> g ]

\* ----------------------------------------------------------------- state
VARIABLES
    folder,             \* NoteFiles -> [present, mtime, content]
    notes,              \* LocalVectorDB._notes: note id -> Note
    chunks,             \* LocalVectorDB._embedded_chunks: chunk id -> chunk
    graph,              \* LocalVectorDB._relationship_graph
    images,             \* LocalImageStore._images: image id -> Image
    diskVec,            \* the vector-store document on disk
    diskImg,            \* the media-store document on disk
    diskVecPass,        \* the value of failures when diskVec was written
    diskImgPass,        \* the value of failures when diskImg was written
    failures,           \* number of ingest passes that failed so far
    pass_result,        \* how the last call of ingest ended
    existing_note_ids,  \* ingest's local of that name, in the last call
    current_note_ids,   \* ingest's local of that name, in the last call
    modified_files,     \* ingest's local of that name, in the last call
    pc,                 \* the step of save() a running pass is at
    call                \* the last call of a read operation and its result

vars == << folder, notes, chunks, graph, images, diskVec, diskImg,
           diskVecPass, diskImgPass, failures, pass_result,
           existing_note_ids, current_note_ids, modified_files, pc, call >>

storeVars == << notes, chunks, graph, images >>
diskVars == << diskVec, diskImg, diskVecPass, diskImgPass >>
passVars == << failures, pass_result, existing_note_ids, current_note_ids,
               modified_files >>
readVars == << pc, call >>

EmptyGraph == [ relationships |-> << >>, note_clusters |-> EmptyMap ]

Absent == [ kind |-> "absent" ]
Partial == [ kind |-> "partial" ]

\* No read operation was called.
NoCall == [ op |-> "none" ]

\* Nothing was ingested, saved or called, and the folder is empty.
InitIdle ==
    /\ folder = [ f \in NoteFiles |-> NoNote ]
    /\ images = EmptyMap
    /\ diskVec = Absent
    /\ diskImg = Absent
    /\ diskVecPass = 0
    /\ diskImgPass = 0
    /\ failures = 0
    /\ pass_result = "idle"
    /\ existing_note_ids = {}
    /\ current_note_ids = {}
    /\ modified_files = << >>
    /\ pc = "idle"

Init ==
    /\ InitIdle
    /\ notes = EmptyMap
    /\ chunks = EmptyMap
    /\ graph = EmptyGraph
    /\ call = NoCall

\* ------------------------------------------------------------ persistence
\* LocalVectorDB.save / LocalImageStore.save: the document that json.dump
\* writes when it runs to the end.
VectorDocument(ns, cs, g) ==
    [ kind |-> "document", notes |-> ns, chunks |-> cs, relationships |-> g ]

ImageDocument(imgs) == [ kind |-> "document", images |-> imgs ]

\* --------------------------------------------------------------- one pass
RECURSIVE DeleteNotes(_, _)
DeleteNotes(db, ids) ==
    IF ids = {} THEN db
    ELSE LET id == CHOOSE x \in ids : TRUE
         IN  DeleteNotes(delete_note(db, id), ids \ {id})

\* for note in notes.values(): delete_chunks_for_note; update_note
RECURSIVE UpdateNotes(_, _, _, _)
UpdateNotes(db, fld, files, i) ==
    IF i > Len(files) THEN db
    ELSE LET note == ProcessedNote(fld, files[i])
         IN  UpdateNotes([ notes |-> update_note(db.notes, note),
                           chunks |-> delete_chunks_for_note(db.chunks, note.id) ],
                         fld, files, i + 1)

RECURSIVE AddChunkSeq(_, _, _)
AddChunkSeq(cs, new, i) ==
    IF i > Len(new) THEN cs
    ELSE AddChunkSeq(add_chunk(cs, new[i]), new, i + 1)

\* for chunk in chunks.values(): add_chunk
RECURSIVE AddChunks(_, _, _, _)
AddChunks(cs, fld, files, i) ==
    IF i > Len(files) THEN cs
    ELSE AddChunks(AddChunkSeq(cs, ProcessedChunks(fld, files[i]), 1),
                   fld, files, i + 1)

\* The first half of ingest, up to the deletion of the removed notes.
\* all_files is the enumeration order of rglob.
ingest_begin(all_files) ==
    LET current == { _generate_note_id(f) : f \in Range(all_files) }
        existing == get_all_note_ids(notes)
    IN  [ modified_files |-> _get_modified_files(folder, notes, all_files),
          current_note_ids |-> current,
          existing_note_ids |-> existing,
          afterDelete |-> DeleteNotes([ notes |-> notes, chunks |-> chunks ],
                                      existing \ current) ]

\* What a whole pass computes.  id_order is the iteration order of the set
\* current_note_ids.
ingest(all_files, id_order) ==
    LET b == ingest_begin(all_files)
        afterUpdate == UpdateNotes(b.afterDelete, folder, b.modified_files, 1)
        all_notes == get_notes_by_ids(afterUpdate.notes, id_order)
        path_to_file_mapping == _get_path_to_file_mapping(all_files)
        built == _extract_and_build_relationships(
                     afterUpdate.notes, all_notes, path_to_file_mapping)
    IN  [ modified_files |-> b.modified_files,
          current_note_ids |-> b.current_note_ids,
          existing_note_ids |-> b.existing_note_ids,
          notes |-> [ id \in DOMAIN afterUpdate.notes |->
                        IF id \in Range(all_notes) THEN built.notes[id]
                        ELSE afterUpdate.notes[id] ],
          chunks |-> AddChunks(afterUpdate.chunks, folder, b.modified_files, 1),
          graph |-> built.graph,
          images |-> ImagesAfterFiles(images, folder, b.modified_files,
                                      Len(b.modified_files)) ]

SetLocals(p, result) ==
    /\ pass_result' = result
    /\ existing_note_ids' = p.existing_note_ids
    /\ current_note_ids' = p.current_note_ids
    /\ modified_files' = p.modified_files

ClearLocals ==
    /\ pass_result' = "idle"
    /\ existing_note_ids' = {}
    /\ current_note_ids' = {}
    /\ modified_files' = << >>

\* ----------------------------------------------------------------- actions
\* The environment creates a note file.
AddFile(f, c, t) ==
    /\ ~folder[f].present
    /\ folder' = [ folder EXCEPT ![f] = [ present |-> TRUE, mtime |-> t, content |-> c ] ]
    /\ ClearLocals
    /\ UNCHANGED << storeVars, diskVars, failures, readVars >>

\* The environment rewrites a note file.
ModifyFile(f, c, t) ==
    /\ folder[f].present
    /\ << c, t >> # << folder[f].content, folder[f].mtime >>
    /\ folder' = [ folder EXCEPT ![f] = [ present |-> TRUE, mtime |-> t, content |-> c ] ]
    /\ ClearLocals
    /\ UNCHANGED << storeVars, diskVars, failures, readVars >>

\* The environment unlinks a note file.
DeleteFile(f) ==
    /\ folder[f].present
    /\ folder' = [ folder EXCEPT ![f] = NoNote ]
    /\ ClearLocals
    /\ UNCHANGED << storeVars, diskVars, failures, readVars >>

\* ingest(folder) runs to the end; p is what the pass computes.
IngestOk(p) ==
    /\ notes' = p.notes
    /\ chunks' = p.chunks
    /\ graph' = p.graph
    /\ images' = p.images
    /\ diskVec' = VectorDocument(p.notes, p.chunks, p.graph)
    /\ diskImg' = ImageDocument(p.images)
    /\ diskVecPass' = failures
    /\ diskImgPass' = failures
    /\ SetLocals(p, "ok")
    /\ UNCHANGED << folder, failures, readVars >>

\* ingest(folder) raises in _process_file_content of the k-th modified file:
\* while reading the file (stage "read") or while embedding its chunks, after
\* its images were stored (stage "embed").  b is the first half of the pass.
IngestFailProcess(b, k, stage) ==
    /\ failures < MaxFailures
    /\ k \in 1..Len(b.modified_files)
    /\ notes' = b.afterDelete.notes
    /\ chunks' = b.afterDelete.chunks
    /\ images' = ImagesAfterFiles(images, folder, b.modified_files,
                                  IF stage = "read" THEN k - 1 ELSE k)
    /\ failures' = failures + 1
    /\ SetLocals(b, "failed_process")
    /\ UNCHANGED << folder, graph, diskVars, readVars >>

\* ingest(folder) raises in vector_db.save(): in open(), before the file is
\* truncated, or in json.dump, after it.
IngestFailSaveVector(p, truncated) ==
    /\ failures < MaxFailures
    /\ notes' = p.notes
    /\ chunks' = p.chunks
    /\ graph' = p.graph
    /\ images' = p.images
    /\ failures' = failures + 1
    /\ SetLocals(p, "failed_save_vector")
    /\ diskVec' = IF truncated THEN Partial ELSE diskVec
    /\ diskVecPass' = IF truncated THEN failures + 1 ELSE diskVecPass
    /\ UNCHANGED << folder, diskImg, diskImgPass, readVars >>

\* ingest(folder) raises in image_store.save(), after vector_db.save().
IngestFailSaveImages(p, truncated) ==
    /\ failures < MaxFailures
    /\ notes' = p.notes
    /\ chunks' = p.chunks
    /\ graph' = p.graph
    /\ images' = p.images
    /\ diskVec' = VectorDocument(p.notes, p.chunks, p.graph)
    /\ failures' = failures + 1
    /\ SetLocals(p, "failed_save_images")
    /\ diskVecPass' = failures + 1
    /\ diskImg' = IF truncated THEN Partial ELSE diskImg
    /\ diskImgPass' = IF truncated THEN failures + 1 ELSE diskImgPass
    /\ UNCHANGED << folder, readVars >>

\* A new process constructs both stores from the documents on disk
\* (LocalVectorDB.__init__, LocalImageStore.__init__).
Restart ==
    /\ diskVec.kind # "partial"
    /\ diskImg.kind # "partial"
    /\ notes' = IF diskVec.kind = "document" THEN diskVec.notes ELSE EmptyMap
    /\ chunks' = IF diskVec.kind = "document" THEN diskVec.chunks ELSE EmptyMap
    /\ graph' = IF diskVec.kind = "document" THEN diskVec.relationships ELSE EmptyGraph
    /\ images' = IF diskImg.kind = "document" THEN diskImg.images ELSE EmptyMap
    /\ ClearLocals
    /\ UNCHANGED << folder, diskVars, failures, readVars >>

\* The enumeration orders rglob can produce for the current folder.
FileOrders == Orderings(_get_all_markdown_files_for_ingestion(folder))

\* The set current_note_ids iterated in the order its elements were added.
IdOrder(all_files) == [ i \in DOMAIN all_files |-> _generate_note_id(all_files[i]) ]

Next ==
    \/ \E f \in NoteFiles, c \in Contents, t \in 1..MaxTime : AddFile(f, c, t)
    \/ \E f \in NoteFiles, c \in Contents, t \in 1..MaxTime : ModifyFile(f, c, t)
    \/ \E f \in NoteFiles : DeleteFile(f)
    \/ \E all_files \in FileOrders :
         \E p \in { ingest(all_files, IdOrder(all_files)) } : IngestOk(p)

\* Next, with the passes that fail and the restart of the process; a
\* behaviour is followed up to its MaxFailures-th failed pass.
NextFail ==
    \/ failures < MaxFailures /\ Next
    \/ \E all_files \in FileOrders :
         \E b \in { ingest_begin(all_files) } :
           \E k \in 1..Cardinality(NoteFiles), stage \in { "read", "embed" } :
             IngestFailProcess(b, k, stage)
    \/ \E all_files \in FileOrders :
         \E p \in { ingest(all_files, IdOrder(all_files)) } :
           \E truncated \in BOOLEAN : IngestFailSaveVector(p, truncated)
    \/ \E all_files \in FileOrders :
         \E p \in { ingest(all_files, IdOrder(all_files)) } :
           \E truncated \in BOOLEAN : IngestFailSaveImages(p, truncated)
    \/ Restart

Spec == Init /\ [][Next]_vars

SpecFail == Init /\ [][NextFail]_vars

\* ------------------------------------------- a pass and a concurrent reader
\* ingest(folder) up to the call of vector_db.save(): the stores in memory
\* hold what the pass computed.
IngestCompute(p) ==
    /\ pc = "idle"
    /\ notes' = p.notes
    /\ chunks' = p.chunks
    /\ graph' = p.graph
    /\ images' = p.images
    /\ SetLocals(p, "saving")
    /\ pc' = "save_vector_open"
    /\ UNCHANGED << folder, failures, diskVars, call >>

\* LocalVectorDB.save: open(save_path, "w") truncates the document.
SaveVectorOpen ==
    /\ pc = "save_vector_open"
    /\ diskVec' = Partial
    /\ pc' = "save_vector_dump"
    /\ UNCHANGED << folder, storeVars, passVars, diskVecPass, diskImg,
                    diskImgPass, call >>

\* LocalVectorDB.save: json.dump has written the document and it is closed.
SaveVectorDump ==
    /\ pc = "save_vector_dump"
    /\ diskVec' = VectorDocument(notes, chunks, graph)
    /\ diskVecPass' = failures
    /\ pc' = "save_images_open"
    /\ UNCHANGED << folder, storeVars, passVars, diskImg, diskImgPass, call >>

\* LocalImageStore.save: open(save_path, "w") truncates the document.
SaveImagesOpen ==
    /\ pc = "save_images_open"
    /\ diskImg' = Partial
    /\ pc' = "save_images_dump"
    /\ UNCHANGED << folder, storeVars, passVars, diskVec, diskVecPass,
                    diskImgPass, call >>

\* LocalImageStore.save: json.dump has written the document; ingest returns,
\* and the reader's call is over.
SaveImagesDump ==
    /\ pc = "save_images_dump"
    /\ diskImg' = ImageDocument(images)
    /\ diskImgPass' = failures
    /\ pc' = "idle"
    /\ pass_result' = "ok"
    /\ call' = NoCall
    /\ UNCHANGED << folder, storeVars, diskVec, diskVecPass, failures,
                    existing_note_ids, current_note_ids, modified_files >>

\* What json.load returns for a document: the document, or JSONDecodeError
\* for one that is truncated or half written.
json_load(doc) == IF doc.kind = "partial" THEN [ kind |-> "JSONDecodeError" ] ELSE doc

\* Another process constructs a LocalVectorDB from the document on disk
\* while the pass is running.
LoadVector ==
    /\ pc # "idle"
    /\ call' = [ op |-> "load_vector", result |-> json_load(diskVec) ]
    /\ UNCHANGED << folder, storeVars, diskVars, passVars, pc >>

\* Another process constructs a LocalImageStore from the document on disk
\* while the pass is running.
LoadImages ==
    /\ pc # "idle"
    /\ call' = [ op |-> "load_images", result |-> json_load(diskImg) ]
    /\ UNCHANGED << folder, storeVars, diskVars, passVars, pc >>

\* The folder changes between passes; a pass saves in four steps, and a
\* reader may load either document between any two of them.
NextConcurrent ==
    \/ pc = "idle" /\ \E f \in NoteFiles, c \in Contents, t \in 1..MaxTime : AddFile(f, c, t)
    \/ pc = "idle" /\ \E f \in NoteFiles, c \in Contents, t \in 1..MaxTime : ModifyFile(f, c, t)
    \/ pc = "idle" /\ \E f \in NoteFiles : DeleteFile(f)
    \/ pc = "idle" /\ \E all_files \in FileOrders :
         \E p \in { ingest(all_files, IdOrder(all_files)) } : IngestCompute(p)
    \/ SaveVectorOpen
    \/ SaveVectorDump
    \/ SaveImagesOpen
    \/ SaveImagesDump
    \/ LoadVector
    \/ LoadImages

SpecConcurrent == Init /\ [][NextConcurrent]_vars

\* ------------------------------------------------- resolving an image path
\* The references resolved: a bare file name and a path with a folder.
ImageRefs == { <<"p.png">>, <<"img", "p.png">> }

\* The places resolve_image_path looks at for a note file and a reference.
ResolveLookups(note_file, image_path) ==
    { _resolve_relative_to_note(note_file, image_path),
      _resolve_in_note_assets(note_file, image_path),
      _resolve_absolute(note_file, image_path) }
    \cup { << attachment_folders[i] >> \o image_path :
             i \in DOMAIN attachment_folders }
    \cup { << attachment_folders[i], AssetsName(PathStem(note_file)),
              Name(image_path) >> : i \in DOMAIN attachment_folders }

\* A note file, a reference and the set of files that exist on disk.
InitResolve ==
    /\ InitIdle
    /\ notes = EmptyMap
    /\ chunks = EmptyMap
    /\ graph = EmptyGraph
    /\ \E note_file \in NoteFiles, image_path \in ImageRefs :
         \E disk \in SUBSET ResolveLookups(note_file, image_path) :
           call = [ op |-> "resolve_image_path", done |-> FALSE,
                    note_file |-> note_file, image_path |-> image_path,
                    disk |-> disk, result |-> << >> ]

\* PathResolver.resolve_image_path(note_file, image_path)
ResolveImagePath ==
    /\ call.op = "resolve_image_path"
    /\ ~call.done
    /\ call' = [ call EXCEPT
                   !.done = TRUE,
                   !.result = resolve_image_path(call.disk, call.note_file,
                                                 call.image_path) ]
    /\ UNCHANGED << folder, storeVars, diskVars, passVars, pc >>

NextResolve == ResolveImagePath

SpecResolve == InitResolve /\ [][NextResolve]_vars

\* -------------------------------------------------------- similarity search
\* The chunk ids and the embedding vectors of the searched stores.
ChunkIds == { "k1", "k2", "k3" }
Vectors == { <<1, 0>>, <<2, 0>>, <<0, 1>>, <<1, 1>> }

\* np.dot and the square of np.linalg.norm
Dot(a, b) == a[1] * b[1] + a[2] * b[2]

NormSq(a) == Dot(a, a)

\* The cosine similarity num / sqrt(den2) of two vectors that are not zero.
similarity(input_vector, chunk_vector) ==
    [ num |-> Dot(input_vector, chunk_vector),
      den2 |-> NormSq(input_vector) * NormSq(chunk_vector) ]

\* x < y for two similarities.
SimLess(x, y) ==
    IF x.num < 0 /\ y.num >= 0 THEN TRUE
    ELSE IF x.num >= 0 /\ y.num < 0 THEN FALSE
    ELSE IF x.num >= 0 THEN x.num * x.num * y.den2 < y.num * y.num * x.den2
    ELSE x.num * x.num * y.den2 > y.num * y.num * x.den2

\* Faulty variant: an element goes before the elements as large as it.
RECURSIVE SortDescending_unstable(_, _)
SortDescending_unstable(similarities, n) ==
    IF n = 0 THEN << >>
    ELSE LET sorted == SortDescending_unstable(similarities, n - 1)
             e == similarities[n]
             before == Cardinality({ j \in DOMAIN sorted :
                                       SimLess(e[1], sorted[j][1]) })
         IN  SubSeq(sorted, 1, before) \o << e >>
                 \o SubSeq(sorted, before + 1, Len(sorted))

\* list.sort(key=..., reverse=True) is stable: an element goes after the
\* elements that are not smaller and were there before it.
RECURSIVE SortDescending(_, _)
SortDescending(similarities, n) ==
    IF n = 0 THEN << >>
    ELSE LET sorted == SortDescending(similarities, n - 1)
             e == similarities[n]
             before == Cardinality({ j \in DOMAIN sorted :
                                       ~SimLess(sorted[j][1], e[1]) })
         IN  SubSeq(sorted, 1, before) \o << e >>
                 \o SubSeq(sorted, before + 1, Len(sorted))

\* Faulty variant: the chunks are sorted by ascending similarity.
get_closest_chunks_ascending(cs, order, input_vector, closest) ==
    LET similarities == [ j \in DOMAIN order |->
                            << similarity(input_vector, cs[order[j]].vector),
                               cs[order[j]] >> ]
        descending == SortDescending(similarities, Len(similarities))
        sorted == [ j \in DOMAIN descending |->
                      descending[Len(descending) + 1 - j] ]
        top == SubSeq(sorted, 1, IF closest < Len(sorted) THEN closest ELSE Len(sorted))
    IN  [ j \in DOMAIN top |->
            [ id |-> top[j][2].id, note_id |-> top[j][2].note_id,
              title |-> top[j][2].title, text |-> top[j][2].text ] ]

\* LocalVectorDB.get_closest_chunks; order is the insertion order of the
\* chunks, the order of _embedded_chunks.values().
get_closest_chunks(cs, order, input_vector, closest) ==
    LET similarities == [ j \in DOMAIN order |->
                            << similarity(input_vector, cs[order[j]].vector),
                               cs[order[j]] >> ]
        sorted == SortDescending(similarities, Len(similarities))
        top == SubSeq(sorted, 1, IF closest < Len(sorted) THEN closest ELSE Len(sorted))
    IN  [ j \in DOMAIN top |->
            [ id |-> top[j][2].id, note_id |-> top[j][2].note_id,
              title |-> top[j][2].title, text |-> top[j][2].text ] ]

\* A store of three chunks, inserted in some order, and a search for the
\* vector of one of them.
InitSearch ==
    /\ InitIdle
    /\ notes = EmptyMap
    /\ graph = EmptyGraph
    /\ chunks \in { [ cid \in ChunkIds |->
                        [ id |-> cid, note_id |-> "n", title |-> "t",
                          text |-> "x", vector |-> vs[cid] ] ] :
                    vs \in [ ChunkIds -> Vectors ] }
    /\ \E order \in Orderings(ChunkIds), cid \in ChunkIds, closest \in 1..2 :
         call = [ op |-> "get_closest_chunks", done |-> FALSE, order |-> order,
                  chunk |-> cid, closest |-> closest, result |-> << >> ]

\* get_closest_chunks(v, closest), v being the vector of the chunk call.chunk.
GetClosestChunks ==
    /\ call.op = "get_closest_chunks"
    /\ ~call.done
    /\ call' = [ call EXCEPT
                   !.done = TRUE,
                   !.result = get_closest_chunks(chunks, call.order,
                                  chunks[call.chunk].vector, call.closest) ]
    /\ UNCHANGED << folder, storeVars, diskVars, passVars, pc >>

NextSearch == GetClosestChunks

SpecSearch == InitSearch /\ [][NextSearch]_vars

\* -------------------------------------------------------- lookup by title
\* Titles, queries and file names are sequences of characters.
\* str.lower
str_lower(str) ==
    [ j \in DOMAIN str |-> CASE str[j] = "A" -> "a"
                             [] str[j] = "B" -> "b"
                             [] OTHER -> str[j] ]

\* str.replace(" ", "_")
replace_spaces(str) ==
    [ j \in DOMAIN str |-> IF str[j] = " " THEN "_" ELSE str[j] ]

\* a in b, for strings
IsSubstring(a, b) ==
    \E j \in 0..(Len(b) - Len(a)) : SubSeq(b, j + 1, j + Len(a)) = a

\* Path(path).stem: the file name without its last suffix
path_stem(path) ==
    LET name == path[Len(path)]
        dots == { j \in DOMAIN name : name[j] = "." }
        last == IF dots = {} THEN 0 ELSE Max(dots)
    IN  IF last > 1 THEN SubSeq(name, 1, last - 1) ELSE name

\* The first note, in the order of _notes.values(), that matches; NotFound
\* stands for None.
NotFound == [ id |-> "None" ]

FirstMatch(ns, order, Matches(_)) ==
    LET hits == SelectSeq(order, LAMBDA id : Matches(ns[id]))
    IN  IF hits = << >> THEN NotFound ELSE ns[hits[1]]

_match_exact_title(ns, order, title) ==
    FirstMatch(ns, order, LAMBDA note : note.title = title)

_match_case_insensitive_title(ns, order, title) ==
    FirstMatch(ns, order, LAMBDA note :
        note.title # << >> /\ str_lower(note.title) = str_lower(title))

_match_normalized_title(ns, order, title) ==
    LET normalized_title == replace_spaces(str_lower(title))
    IN  FirstMatch(ns, order, LAMBDA note :
            /\ note.title # << >>
            /\ replace_spaces(str_lower(note.title)) = normalized_title)

_match_stem(ns, order, title) ==
    LET normalized_title == replace_spaces(str_lower(title))
    IN  FirstMatch(ns, order, LAMBDA note :
            str_lower(path_stem(note.path)) \in { normalized_title, str_lower(title) })

_match_substring_title(ns, order, title) ==
    FirstMatch(ns, order, LAMBDA note :
        note.title # << >> /\ IsSubstring(str_lower(title), str_lower(note.title)))

\* Faulty variant: the match by stem is tried first.
find_note_by_title_stem_first(ns, order, title) ==
    LET r1 == _match_stem(ns, order, title)
        r2 == _match_exact_title(ns, order, title)
        r3 == _match_case_insensitive_title(ns, order, title)
        r4 == _match_normalized_title(ns, order, title)
        r5 == _match_substring_title(ns, order, title)
    IN  IF r1 # NotFound THEN r1
        ELSE IF r2 # NotFound THEN r2
        ELSE IF r3 # NotFound THEN r3
        ELSE IF r4 # NotFound THEN r4
        ELSE r5

\* LocalVectorDB.find_note_by_title; order is the order of _notes.values().
find_note_by_title(ns, order, title) ==
    LET r1 == _match_exact_title(ns, order, title)
        r2 == _match_case_insensitive_title(ns, order, title)
        r3 == _match_normalized_title(ns, order, title)
        r4 == _match_stem(ns, order, title)
        r5 == _match_substring_title(ns, order, title)
    IN  IF r1 # NotFound THEN r1
        ELSE IF r2 # NotFound THEN r2
        ELSE IF r3 # NotFound THEN r3
        ELSE IF r4 # NotFound THEN r4
        ELSE r5

\* The titles, file names and queries of the stores searched by title.
Titles == { << >>, <<"A", " ", "b">>, <<"a", " ", "b">>, <<"a", "_", "b">>,
            <<"b">>, <<"x", "a", " ", "b">> }
FileNames == { <<"a", "_", "b", ".", "m", "d">>, <<"A", " ", "B", ".", "m", "d">>,
               <<"c", ".", "m", "d">> }
Queries == Titles \cup { <<"A", "_", "B">>, <<"c">>, <<"z">> }
TitledIds == { "n1", "n2" }

TitledNote(id, title, name) ==
    [ id |-> id, title |-> title, path |-> << "path", "to", name >>,
      content |-> [ raw |-> "c3", urls |-> << >> ], modified |-> 1,
      outbound_links |-> << >>, inbound_links |-> << >>, folder_path |-> << >> ]

\* A store of two notes with any titles and file names, and a query.
InitTitle ==
    /\ InitIdle
    /\ chunks = EmptyMap
    /\ graph = EmptyGraph
    /\ notes \in { [ id \in TitledIds |-> TitledNote(id, ts[id], fs[id]) ] :
                   ts \in [ TitledIds -> Titles ], fs \in [ TitledIds -> FileNames ] }
    /\ \E order \in Orderings(TitledIds), title \in Queries :
         call = [ op |-> "find_note_by_title", done |-> FALSE, order |-> order,
                  title |-> title, result |-> NotFound ]

FindNoteByTitle ==
    /\ call.op = "find_note_by_title"
    /\ ~call.done
    /\ call' = [ call EXCEPT
                   !.done = TRUE,
                   !.result = find_note_by_title(notes, call.order, call.title) ]
    /\ UNCHANGED << folder, storeVars, diskVars, passVars, pc >>

NextTitle == FindNoteByTitle

SpecTitle == InitTitle /\ [][NextTitle]_vars

\* ------------------------------------------------- retrieval over the graph
\* current_note.outbound_links + current_note.inbound_links
LinksOf(note) == note.outbound_links \o note.inbound_links

\* Faulty variant: a linked id is queued whether it was visited or not.
RECURSIVE EnqueueLinked_unvisited(_, _, _, _)
EnqueueLinked_unvisited(links, i, depth, st) ==
    IF i > Len(links) THEN st
    ELSE EnqueueLinked_unvisited(links, i + 1, depth,
             [ st EXCEPT !.visited = @ \cup { links[i] },
                         !.queue = Append(@, << links[i], depth + 1 >>) ])

\* for linked_id in links: if linked_id not in visited: visited.add(...);
\* queue.append((linked_id, depth + 1))
RECURSIVE EnqueueLinked(_, _, _, _)
EnqueueLinked(links, i, depth, st) ==
    IF i > Len(links) THEN st
    ELSE EnqueueLinked(links, i + 1, depth,
             IF links[i] \in st.visited THEN st
             ELSE [ st EXCEPT !.visited = @ \cup { links[i] },
                              !.queue = Append(@, << links[i], depth + 1 >>) ])

\* One iteration of the while loop of get_related_notes.
related_step(ns, max_depth, st) ==
    LET current_id == Head(st.queue)[1]
        depth == Head(st.queue)[2]
        popped == [ st EXCEPT !.queue = Tail(@) ]
        emitted == IF depth > 0 /\ current_id \in DOMAIN ns
                   THEN [ popped EXCEPT !.related = Append(@, ns[current_id]) ]
                   ELSE popped
    IN  IF depth < max_depth /\ current_id \in DOMAIN ns
        THEN EnqueueLinked(LinksOf(ns[current_id]), 1, depth, emitted)
        ELSE emitted

\* The while loop of get_related_notes.
RECURSIVE RelatedLoop(_, _, _)
RelatedLoop(ns, max_depth, st) ==
    IF st.queue = << >> THEN st.related
    ELSE RelatedLoop(ns, max_depth, related_step(ns, max_depth, st))

\* Faulty variant: the inbound links are not followed.
get_related_notes_outbound_only(ns, note_id, max_depth) ==
    IF note_id \notin DOMAIN ns THEN << >>
    ELSE RelatedLoop([ id \in DOMAIN ns |-> [ ns[id] EXCEPT !.inbound_links = << >> ] ],
                     max_depth,
                     [ queue |-> << << note_id, 0 >> >>, visited |-> { note_id },
                       related |-> << >> ])

\* LocalVectorDB.get_related_notes
get_related_notes(ns, note_id, max_depth) ==
    IF note_id \notin DOMAIN ns THEN << >>
    ELSE RelatedLoop(ns, max_depth,
                     [ queue |-> << << note_id, 0 >> >>, visited |-> { note_id },
                       related |-> << >> ])

\* for connected_id in connected_ids: if connected_id not in visited and
\* connected_id in self._notes: visited.add(...); queue.append(...)
RECURSIVE EnqueueConnected(_, _, _, _, _)
EnqueueConnected(ns, links, i, path, st) ==
    IF i > Len(links) THEN st
    ELSE EnqueueConnected(ns, links, i + 1, path,
             IF links[i] \in st.visited \/ links[i] \notin DOMAIN ns THEN st
             ELSE [ st EXCEPT !.visited = @ \cup { links[i] },
                              !.queue = Append(@, << links[i], Append(path, links[i]) >>) ])

\* One iteration of the while loop of find_path_between_notes: the path is
\* returned at the first connected id that is the target.
path_step(ns, target_id, st) ==
    LET current_id == Head(st.queue)[1]
        path == Head(st.queue)[2]
        popped == [ st EXCEPT !.queue = Tail(@) ]
        connected_ids == LinksOf(ns[current_id])
    IN  IF target_id \in Range(connected_ids)
        THEN [ returned |-> TRUE, path |-> Append(path, target_id), st |-> popped ]
        ELSE [ returned |-> FALSE, path |-> << >>,
               st |-> EnqueueConnected(ns, connected_ids, 1, path, popped) ]

\* The while loop of find_path_between_notes.
RECURSIVE PathLoop(_, _, _)
PathLoop(ns, target_id, st) ==
    IF st.queue = << >> THEN << >>
    ELSE LET step == path_step(ns, target_id, st)
         IN  IF step.returned THEN step.path
             ELSE PathLoop(ns, target_id, step.st)

\* Faulty variant: the inbound links are not followed.
find_path_between_notes_outbound_only(ns, source_id, target_id) ==
    IF source_id \notin DOMAIN ns \/ target_id \notin DOMAIN ns THEN << >>
    ELSE IF source_id = target_id THEN << source_id >>
    ELSE PathLoop([ id \in DOMAIN ns |-> [ ns[id] EXCEPT !.inbound_links = << >> ] ],
                  target_id,
                  [ queue |-> << << source_id, << source_id >> >> >>,
                    visited |-> { source_id } ])

\* LocalVectorDB.find_path_between_notes
find_path_between_notes(ns, source_id, target_id) ==
    IF source_id \notin DOMAIN ns \/ target_id \notin DOMAIN ns THEN << >>
    ELSE IF source_id = target_id THEN << source_id >>
    ELSE PathLoop(ns, target_id,
                  [ queue |-> << << source_id, << source_id >> >> >>,
                    visited |-> { source_id } ])


\* LocalVectorDB.get_note_cluster
get_note_cluster(ns, g, note_id) ==
    IF note_id \notin DOMAIN ns THEN << >>
    ELSE IF ns[note_id].folder_path = << >> THEN << >>
    ELSE LET fp == ns[note_id].folder_path
             cluster_note_ids == IF fp \in DOMAIN g.note_clusters
                                 THEN g.note_clusters[fp] ELSE << >>
             kept == SelectSeq(cluster_note_ids,
                               LAMBDA nid : nid \in DOMAIN ns /\ nid # note_id)
         IN  [ j \in DOMAIN kept |-> ns[kept[j]] ]

\* The stores searched: three notes, each with at most one outbound link,
\* to a stored note, to itself, to a note that is not stored or to an image;
\* two of the notes are in the root or in folder d, the third is in d.
GraphFiles == << <<"n1.md">>, <<"n2.md">>, <<"n3.md">> >>
GraphIds == [ j \in DOMAIN GraphFiles |-> _generate_note_id(GraphFiles[j]) ]
UnknownId == _generate_note_id(<<"gone.md">>)
LinkLists ==
    { << >>, << UnknownId >>, << << "image:", <<"p.png">> >> >> }
        \cup { << id >> : id \in Range(GraphIds) }
FolderPaths == { << >>, <<"d">> }

GraphNote(j, links, folder_path) ==
    [ id |-> GraphIds[j], title |-> "Note", path |-> folder_path \o GraphFiles[j],
      content |-> [ raw |-> "c3", urls |-> << >> ], modified |-> 1,
      outbound_links |-> links, inbound_links |-> << >>,
      folder_path |-> folder_path ]

\* The notes with these links and folders, and their graph, as the
\* relationship-build phase of a pass leaves them.
BuiltStore(links, fps) ==
    LET ns == [ id \in Range(GraphIds) |->
                  LET j == CHOOSE k \in DOMAIN GraphIds : GraphIds[k] = id
                  IN  GraphNote(j, links[j], fps[j]) ]
        g == build_relationships(ns, GraphIds)
    IN  [ notes |-> [ id \in Range(GraphIds) |->
                        [ ns[id] EXCEPT !.inbound_links =
                            update_inbound_links(id, g.relationships) ] ],
          graph |-> g ]

MaxDepth == 2

GraphCalls ==
    { [ op |-> "get_related_notes", done |-> FALSE, note_id |-> id,
        max_depth |-> d, target_id |-> id, result |-> << >> ] :
        id \in Range(GraphIds) \cup { UnknownId }, d \in 0..MaxDepth }
    \cup
    { [ op |-> "find_path_between_notes", done |-> FALSE, note_id |-> id,
        max_depth |-> 0, target_id |-> t, result |-> << >> ] :
        id \in Range(GraphIds) \cup { UnknownId },
        t \in Range(GraphIds) \cup { UnknownId } }
    \cup
    { [ op |-> "get_note_cluster", done |-> FALSE, note_id |-> id,
        max_depth |-> 0, target_id |-> id, result |-> << >> ] :
        id \in Range(GraphIds) \cup { UnknownId } }

InitGraph ==
    /\ InitIdle
    /\ chunks = EmptyMap
    /\ \E links \in [ DOMAIN GraphIds -> LinkLists ],
          fps \in { f \in [ DOMAIN GraphIds -> FolderPaths ] : f[3] = <<"d">> } :
         /\ notes = BuiltStore(links, fps).notes
         /\ graph = BuiltStore(links, fps).graph
    /\ call \in GraphCalls

GetRelatedNotes ==
    /\ call.op = "get_related_notes"
    /\ ~call.done
    /\ call' = [ call EXCEPT
                   !.done = TRUE,
                   !.result = get_related_notes(notes, call.note_id, call.max_depth) ]
    /\ UNCHANGED << folder, storeVars, diskVars, passVars, pc >>

FindPathBetweenNotes ==
    /\ call.op = "find_path_between_notes"
    /\ ~call.done
    /\ call' = [ call EXCEPT
                   !.done = TRUE,
                   !.result = find_path_between_notes(notes, call.note_id,
                                                      call.target_id) ]
    /\ UNCHANGED << folder, storeVars, diskVars, passVars, pc >>

GetNoteCluster ==
    /\ call.op = "get_note_cluster"
    /\ ~call.done
    /\ call' = [ call EXCEPT
                   !.done = TRUE,
                   !.result = get_note_cluster(notes, graph, call.note_id) ]
    /\ UNCHANGED << folder, storeVars, diskVars, passVars, pc >>

NextGraph ==
    \/ GetRelatedNotes
    \/ FindPathBetweenNotes
    \/ GetNoteCluster

SpecGraph == InitGraph /\ [][NextGraph]_vars

\* -------------------------------------------------------------- TextChunker
\* A text is a sequence of pieces: "# h" is the text of a header ("# " and
\* a word), "w" is a word, "\n" is a line break.  A piece is one token.
MaxTextLen == 5
Pieces == { "# h", "w", "\n" }
max_tokens == 3

\* len(self.enc.encode(text))
token_count(text) == Len(text)

\* str.strip(): the line breaks at both ends are removed.
RECURSIVE lstrip(_)
lstrip(text) ==
    IF text # << >> /\ Head(text) = "\n" THEN lstrip(Tail(text)) ELSE text

RECURSIVE rstrip(_)
rstrip(text) ==
    IF text # << >> /\ text[Len(text)] = "\n"
    THEN rstrip(SubSeq(text, 1, Len(text) - 1)) ELSE text

strip(text) == rstrip(lstrip(text))

\* The pieces of text from position from on, cut before every position of
\* the set cuts.
RECURSIVE SplitBefore(_, _, _)
SplitBefore(text, cuts, from) ==
    IF from > Len(text) THEN << >>
    ELSE LET later == { c \in cuts : c > from }
             to == IF later = {} THEN Len(text) + 1
                   ELSE CHOOSE c \in later : \A d \in later : c <= d
         IN  << SubSeq(text, from, to - 1) >> \o SplitBefore(text, cuts, to)

\* re.split(r"(?=^#{1,6}\s+.+$)", text, flags=re.MULTILINE), stripped, the
\* empty sections dropped: a header starts where "# h" begins a line.
_split_on_headers(text) ==
    LET headers == { j \in DOMAIN text :
                       text[j] = "# h" /\ (j = 1 \/ text[j - 1] = "\n") }
        sections == SplitBefore(text, headers, 1)
        stripped == [ j \in DOMAIN sections |-> strip(sections[j]) ]
    IN  SelectSeq(stripped, LAMBDA x : x # << >>)

\* _split_on_paragraphs: a part ends with an empty line that is not the
\* last line; no line of these texts is a list item.
_split_on_paragraphs(text) ==
    LET ends == { j \in DOMAIN text :
                    /\ text[j] = "\n"
                    /\ (j = 1 \/ text[j - 1] = "\n") }
        parts == SplitBefore(text, { j + 1 : j \in ends }, 1)
        stripped == [ j \in DOMAIN parts |-> strip(parts[j]) ]
    IN  SelectSeq(stripped, LAMBDA x : x # << >>)

\* _split_on_sentences: these texts have no ".", "!" or "?".
_split_on_sentences(text) ==
    IF strip(text) = << >> THEN << >> ELSE << strip(text) >>

\* _process_text_chunk; st is (chunks, current_chunk, current_tokens).
_process_text_chunk(raw, st) ==
    LET text == strip(raw)
        text_tokens == token_count(text)
    IN  IF text = << >> THEN st
        ELSE IF st.current_tokens + text_tokens > max_tokens
        THEN [ chunks |-> IF st.current_chunk # << >>
                          THEN Append(st.chunks, strip(st.current_chunk))
                          ELSE st.chunks,
               current_chunk |-> text,
               current_tokens |-> text_tokens ]
        ELSE [ chunks |-> st.chunks,
               current_chunk |-> IF st.current_chunk # << >>
                                 THEN st.current_chunk \o << "\n", "\n" >> \o text
                                 ELSE text,
               current_tokens |-> st.current_tokens + text_tokens ]

RECURSIVE ProcessAll(_, _, _)
ProcessAll(texts, j, st) ==
    IF j > Len(texts) THEN st
    ELSE ProcessAll(texts, j + 1, _process_text_chunk(texts[j], st))

RECURSIVE ProcessParagraphs(_, _, _)
ProcessParagraphs(paragraphs, j, st) ==
    IF j > Len(paragraphs) THEN st
    ELSE ProcessParagraphs(paragraphs, j + 1,
             IF token_count(paragraphs[j]) > max_tokens
             THEN ProcessAll(_split_on_sentences(paragraphs[j]), 1, st)
             ELSE _process_text_chunk(paragraphs[j], st))

RECURSIVE ProcessSections(_, _, _)
ProcessSections(sections, j, st) ==
    IF j > Len(sections) THEN st
    ELSE ProcessSections(sections, j + 1,
             IF token_count(sections[j]) > max_tokens
             THEN ProcessParagraphs(_split_on_paragraphs(sections[j]), 1, st)
             ELSE _process_text_chunk(sections[j], st))

\* TextChunker.chunk_text with overlap = 0 (_add_chunk_overlap returns the
\* chunks as they are).
TextChunker_chunk_text(text) ==
    LET st == ProcessSections(_split_on_headers(text), 1,
                  [ chunks |-> << >>, current_chunk |-> << >>, current_tokens |-> 0 ])
    IN  IF st.current_chunk # << >>
        THEN Append(st.chunks, strip(st.current_chunk))
        ELSE st.chunks

\* The texts of at most MaxTextLen pieces.
Texts == UNION { [ 1..n -> Pieces ] : n \in 0..MaxTextLen }

InitChunker ==
    /\ InitIdle
    /\ notes = EmptyMap
    /\ chunks = EmptyMap
    /\ graph = EmptyGraph
    /\ \E text \in Texts :
         call = [ op |-> "chunk_text", done |-> FALSE, text |-> text,
                  result |-> << >> ]

ChunkText ==
    /\ call.op = "chunk_text"
    /\ ~call.done
    /\ call' = [ call EXCEPT !.done = TRUE,
                             !.result = TextChunker_chunk_text(call.text) ]
    /\ UNCHANGED << folder, storeVars, diskVars, passVars, pc >>

NextChunker == ChunkText

SpecChunker == InitChunker /\ [][NextChunker]_vars

\* ------------------------------------------------- LocalImageStore calls
MaxAdds == 3

\* The images given to add_image: two ids, two contents for each.
StoreImageIds == { "i1", "i2" }
StoreImages ==
    { [ id |-> i, note_id |-> "n", content |-> c, mime_type |-> "image/png",
        relative_path |-> << "p.png" >>, absolute_path |-> << "p.png" >> ] :
      i \in StoreImageIds, c \in { "bytes_old", "bytes_new" } }

\* LocalImageStore.get_image
get_image(imgs, image_id) ==
    IF image_id \notin DOMAIN imgs
    THEN [ kind |-> "KeyError" ]
    ELSE [ kind |-> "image", image |-> imgs[image_id] ]

\* LocalImageStore.get_image_ids: the keys in dictionary order.
get_image_ids(imgs, order) == order

\* A new LocalImageStore() without a file; call.added lists the images
\* given to add_image so far.
InitImageStore ==
    /\ InitIdle
    /\ notes = EmptyMap
    /\ chunks = EmptyMap
    /\ graph = EmptyGraph
    /\ call = [ op |-> "new", added |-> << >>, image_id |-> "none",
                result |-> [ kind |-> "none" ] ]

AddImage ==
    /\ Len(call.added) < MaxAdds
    /\ \E image \in StoreImages :
         /\ images' = add_image(images, image)
         /\ call' = [ op |-> "add_image", added |-> Append(call.added, image),
                      image_id |-> image.id, result |-> [ kind |-> "none" ] ]
    /\ UNCHANGED << folder, notes, chunks, graph, diskVars, passVars, pc >>

GetImage ==
    /\ \E image_id \in StoreImageIds \cup { "i3" } :
         call' = [ call EXCEPT !.op = "get_image", !.image_id = image_id,
                               !.result = get_image(images, image_id) ]
    /\ UNCHANGED << folder, storeVars, diskVars, passVars, pc >>

GetImageIds ==
    /\ \E order \in Orderings(DOMAIN images) :
         call' = [ call EXCEPT !.op = "get_image_ids", !.image_id = "none",
                       !.result = [ kind |-> "ids",
                                    ids |-> get_image_ids(images, order) ] ]
    /\ UNCHANGED << folder, storeVars, diskVars, passVars, pc >>

NextImageStore == AddImage \/ GetImage \/ GetImageIds

SpecImageStore == InitImageStore /\ [][NextImageStore]_vars

\* ------------------------------------------------------- session and login
MaxRequests == 3

\* settings.auth_username and settings.auth_password
auth_username == "admin"
auth_password == "secret"

\* The strings a client may post as username or password; "e-acute" stands
\* for the one-letter string of the letter e with an acute accent.
FormValues == { "admin", "secret", "wrong", "e-acute" }

IsAscii(s) == s # "e-acute"

\* secrets.compare_digest on two str: TypeError unless both are ASCII.
compare_digest(a, b) ==
    IF IsAscii(a) /\ IsAscii(b) THEN IF a = b THEN "True" ELSE "False"
    ELSE "TypeError"

\* verify_basic_auth: both comparisons are evaluated before the "and".
verify_basic_auth(username, password) ==
    LET is_correct_username == compare_digest(username, auth_username)
        is_correct_password == compare_digest(password, auth_password)
    IN  IF "TypeError" \in { is_correct_username, is_correct_password }
        THEN "TypeError"
        ELSE IF is_correct_username = "True" /\ is_correct_password = "True"
        THEN "True" ELSE "False"

\* request.session.get("authenticated") taken as a truth value
is_authenticated(session) ==
    "authenticated" \in DOMAIN session /\ session["authenticated"] = "True"

\* verify_session: HTTPException(401) unless the session is authenticated.
verify_session(session) ==
    IF is_authenticated(session)
    THEN [ raised |-> FALSE, status_code |-> 0 ]
    ELSE [ raised |-> TRUE, status_code |-> 401 ]

\* The endpoints that depend on verify_session, with the statuses their
\* handlers may answer once the dependency has passed.
Endpoints == { "/chat", "/api/notes/search", "/api/images" }

HandlerStatuses(endpoint) ==
    CASE endpoint = "/chat" -> { 200 }
      [] endpoint = "/api/notes/search" -> { 200, 500 }
      [] endpoint = "/api/images" -> { 200, 404, 500 }

\* POST /login: the session after the request and the status answered; an
\* exception that no handler catches is answered with 500.
login(session, username, password) ==
    LET ok == verify_basic_auth(username, password)
    IN  IF ok = "TypeError" THEN [ session |-> session, status |-> 500 ]
        ELSE IF ok = "True"
        THEN [ session |-> Put(Put(session, "authenticated", "True"),
                               "username", username),
               status |-> 302 ]
        ELSE [ session |-> session, status |-> 400 ]

\* POST /logout
logout(session) == [ session |-> EmptyMap, status |-> 302 ]

\* One client with an empty session; call.log lists the requests made.
InitSession ==
    /\ InitIdle
    /\ notes = EmptyMap
    /\ chunks = EmptyMap
    /\ graph = EmptyGraph
    /\ call = [ op |-> "session", session |-> EmptyMap, log |-> << >> ]

Logged(entry, after) ==
    call' = [ call EXCEPT !.session = after.session,
                          !.log = Append(call.log,
                                    entry @@ [ before |-> call.session,
                                               after |-> after.session,
                                               status |-> after.status ]) ]

Login ==
    /\ Len(call.log) < MaxRequests
    /\ \E username, password \in FormValues :
         Logged([ op |-> "login", username |-> username, password |-> password ],
                login(call.session, username, password))
    /\ UNCHANGED << folder, storeVars, diskVars, passVars, pc >>

Logout ==
    /\ Len(call.log) < MaxRequests
    /\ Logged([ op |-> "logout", username |-> "", password |-> "" ],
              logout(call.session))
    /\ UNCHANGED << folder, storeVars, diskVars, passVars, pc >>

ProtectedRequest ==
    /\ Len(call.log) < MaxRequests
    /\ \E endpoint \in Endpoints :
         \E status \in IF verify_session(call.session).raised
                       THEN { verify_session(call.session).status_code }
                       ELSE HandlerStatuses(endpoint) :
           Logged([ op |-> endpoint, username |-> "", password |-> "" ],
                  [ session |-> call.session, status |-> status ])
    /\ UNCHANGED << folder, storeVars, diskVars, passVars, pc >>

NextSession == Login \/ Logout \/ ProtectedRequest

SpecSession == InitSession /\ [][NextSession]_vars

\* ------------------------------------------------- chunk overlap, positions
\* The values of TextChunker.overlap: none, or one token.
Overlaps == { 0, 1 }

\* _add_chunk_overlap: every chunk but the first gets "Previous context: ",
\* the last `overlap` tokens of the chunk before it and an empty line in
\* front.  The prefix is the piece "Previous context: ".
_add_chunk_overlap(text_chunks, overlap) ==
    IF overlap <= 0 \/ Len(text_chunks) <= 1 THEN text_chunks
    ELSE [ i \in DOMAIN text_chunks |->
             IF i = 1 THEN text_chunks[i]
             ELSE LET prev_chunk == text_chunks[i - 1]
                      context == SubSeq(prev_chunk,
                                        Max({ 1, Len(prev_chunk) - overlap + 1 }),
                                        Len(prev_chunk))
                  IN  << "Previous context: " >> \o context
                        \o << "\n", "\n" >> \o text_chunks[i] ]

\* TextChunker(max_tokens, overlap).chunk_text(text)
chunk_text_overlap(text, overlap) ==
    _add_chunk_overlap(TextChunker_chunk_text(text), overlap)

\* str.find(sub, start) for 0 <= start: the least index from start on at
\* which sub occurs in content, counted from 0, or -1.
find(content, sub, start) ==
    LET at == { j \in start..(Len(content) - Len(sub)) :
                  SubSeq(content, j + 1, j + Len(sub)) = sub }
    IN  IF at = {} THEN -1 ELSE CHOOSE j \in at : \A k \in at : j <= k

\* The loop of _process_file_content over the chunk texts: start_pos and
\* end_pos of the chunks from the i-th on, current_pos being the end_pos of
\* the chunk before.
RECURSIVE ChunkPositions(_, _, _, _)
ChunkPositions(content, text_chunks, i, current_pos) ==
    IF i > Len(text_chunks) THEN << >>
    ELSE LET start_pos == find(content, text_chunks[i], current_pos)
             end_pos == start_pos + Len(text_chunks[i])
         IN  << [ text |-> text_chunks[i], start_pos |-> start_pos,
                  end_pos |-> end_pos ] >>
             \o ChunkPositions(content, text_chunks, i + 1, end_pos)

InitPositions ==
    /\ InitIdle
    /\ notes = EmptyMap
    /\ chunks = EmptyMap
    /\ graph = EmptyGraph
    /\ \E content \in Texts, overlap \in Overlaps :
         call = [ op |-> "chunk_positions", done |-> FALSE, content |-> content,
                  overlap |-> overlap, result |-> << >> ]

\* The chunks _process_file_content builds for a note of that content.
ProcessFileContent ==
    /\ call.op = "chunk_positions"
    /\ ~call.done
    /\ call' = [ call EXCEPT !.done = TRUE,
                   !.result = ChunkPositions(call.content,
                                  chunk_text_overlap(call.content, call.overlap),
                                  1, 0) ]
    /\ UNCHANGED << folder, storeVars, diskVars, passVars, pc >>

NextPositions == ProcessFileContent

SpecPositions == InitPositions /\ [][NextPositions]_vars

\* --------------------------------------------- calculate_relationship_strength
\* A source content is a sequence of pieces: "# " opens a header line,
\* "#1, 6" is that text, "Target" and "target" are the title of the target
\* note in two spellings, "\n" is a line break.
MaxContentLen == 4
StrengthPieces == { "# ", "#1, 6", "Target", "target", "\n" }
SourceContents == UNION { [ 1..n -> StrengthPieces ] : n \in 0..MaxContentLen }

\* re.IGNORECASE match of a piece against re.escape(target_name), the
\* target name being "Target".
IsTarget(piece) == piece \in { "Target", "target" }

\* The positions at which a line of the content starts, and the last
\* position of the line that starts at s.
LineStarts(content) ==
    { 1 } \cup { j + 1 : j \in { k \in DOMAIN content : content[k] = "\n" } }

LineEnd(content, s) ==
    LET breaks == { k \in DOMAIN content : k >= s /\ content[k] = "\n" }
    IN  IF breaks = {} THEN Len(content)
        ELSE (CHOOSE k \in breaks : \A d \in breaks : k <= d) - 1

\* len(re.findall(f"#{1, 6}.*{re.escape(target_name)}", ...)): the f-string
\* renders the pattern "#(1, 6).*Target", which matches the text "#1, 6"
\* followed on the same line by the target name, once for a line.
header_mentions(content) ==
    Cardinality({ s \in LineStarts(content) :
        \E i, j \in s..LineEnd(content, s) :
            i < j /\ content[i] = "#1, 6" /\ IsTarget(content[j]) })

\* calculate_relationship_strength(source_content, "Target"), in tenths.
calculate_relationship_strength(source_content) ==
    LET occurrences == Cardinality({ j \in DOMAIN source_content :
                                       IsTarget(source_content[j]) })
        base_strength == IF occurrences * 3 < 10 THEN occurrences * 3 ELSE 10
        header_boost == header_mentions(source_content) * 2
    IN  IF base_strength + header_boost < 10
        THEN base_strength + header_boost ELSE 10

InitStrength ==
    /\ InitIdle
    /\ notes = EmptyMap
    /\ chunks = EmptyMap
    /\ graph = EmptyGraph
    /\ \E content \in SourceContents :
         call = [ op |-> "calculate_relationship_strength", done |-> FALSE,
                  source_content |-> content, result |-> 0 ]

CalculateRelationshipStrength ==
    /\ call.op = "calculate_relationship_strength"
    /\ ~call.done
    /\ call' = [ call EXCEPT !.done = TRUE,
                   !.result = calculate_relationship_strength(call.source_content) ]
    /\ UNCHANGED << folder, storeVars, diskVars, passVars, pc >>

NextStrength == CalculateRelationshipStrength

SpecStrength == InitStrength /\ [][NextStrength]_vars

\* ------------------------------------------- similarity search, any store
MaxClosest == 4

\* A store of up to three chunks, inserted in some order, and a search for
\* any vector with any number of requested chunks.
InitClosest ==
    /\ InitIdle
    /\ notes = EmptyMap
    /\ graph = EmptyGraph
    /\ \E ids \in SUBSET ChunkIds :
         /\ chunks \in { [ cid \in ids |->
                             [ id |-> cid, note_id |-> "n", title |-> "t",
                               text |-> "x", vector |-> vs[cid] ] ] :
                         vs \in [ ids -> Vectors ] }
         /\ \E order \in Orderings(ids), q \in Vectors, closest \in 0..MaxClosest :
              call = [ op |-> "closest", done |-> FALSE, order |-> order,
                       input_vector |-> q, closest |-> closest, result |-> << >> ]

\* get_closest_chunks(input_vector, closest)
GetClosest ==
    /\ call.op = "closest"
    /\ ~call.done
    /\ call' = [ call EXCEPT
                   !.done = TRUE,
                   !.result = get_closest_chunks(chunks, call.order,
                                  call.input_vector, call.closest) ]
    /\ UNCHANGED << folder, storeVars, diskVars, passVars, pc >>

NextClosest == GetClosest

SpecClosest == InitClosest /\ [][NextClosest]_vars

\* ------------------------------------------------- serving a stored image
\* An image reference is a sequence of pieces: "d" and "p" are words, "/"
\* separates path components, "." is a dot, "%20" is an encoded space and
\* " " a space, ".png" is the suffix.  Every reference ends with "p.png",
\* after a prefix of at most MaxRefLen pieces that does not begin with "/"
\* or with a space (extract_image_paths strips the reference).
MaxRefLen == 3
RefPieces == { "d", "/", ".", "%20", " " }
References ==
    { prefix \o << "p", ".png" >> :
        prefix \in { x \in UNION { [ 1..n -> RefPieces ] : n \in 0..MaxRefLen } :
                       x = << >> \/ x[1] \notin { "/", " " } } }

\* urllib.parse.unquote
unquote(str) == [ j \in DOMAIN str |-> IF str[j] = "%20" THEN " " ELSE str[j] ]

\* The components of a relative path: the runs of pieces between "/".
RECURSIVE PathParts(_)
PathParts(str) ==
    IF \A j \in DOMAIN str : str[j] # "/" THEN << str >>
    ELSE LET k == CHOOSE j \in DOMAIN str :
                      str[j] = "/" /\ \A i \in 1..(j - 1) : str[i] # "/"
         IN  << SubSeq(str, 1, k - 1) >> \o PathParts(SubSeq(str, k + 1, Len(str)))

RECURSIVE JoinParts(_)
JoinParts(parts) ==
    IF parts = << >> THEN << >>
    ELSE IF Len(parts) = 1 THEN parts[1]
    ELSE parts[1] \o << "/" >> \o JoinParts(Tail(parts))

\* str(Path(str)) for a relative path: empty components and "." components
\* are dropped.
path_str(str) ==
    JoinParts(SelectSeq(PathParts(str), LAMBDA c : c # << >> /\ c # << "." >>))

\* replace_match: the path written after /api/images/{note_id}/.
api_image_path(img_path) == path_str(unquote(img_path))

\* The image endpoint for /api/images/{note_id}/{path}: the HTTPException
\* with status 404 is raised inside the try block and caught by "except
\* Exception", which answers 500.
image_endpoint(imgs, note_id, path) ==
    LET decoded_path == unquote(path)
        image_ids == get_image_id_by_path(imgs, note_id, decoded_path)
    IN  IF image_ids = {} THEN [ status |-> 500, image_ids |-> {} ]
        ELSE [ status |-> 200, image_ids |-> image_ids ]

\* A note with one image reference, the file it resolves to being p.png.
InitServe ==
    /\ InitIdle
    /\ notes = EmptyMap
    /\ chunks = EmptyMap
    /\ graph = EmptyGraph
    /\ \E img_path \in References :
         call = [ op |-> "process_images_in_note", done |-> FALSE,
                  img_path |-> img_path, note_id |-> << "md5", << "A.md" >> >>,
                  result |-> [ status |-> 0, image_ids |-> {} ] ]

\* process_images_in_note stores the resolved image under the reference as
\* it is written in the note.
StoreReferencedImage ==
    /\ call.op = "process_images_in_note"
    /\ images' = _process_single_image(images, << "p.png" >>, call.img_path,
                                       call.note_id)
    /\ call' = [ call EXCEPT !.op = "stored" ]
    /\ UNCHANGED << folder, notes, chunks, graph, diskVars, passVars, pc >>

\* A request for the URL that replace_image_paths wrote into the content.
RequestImage ==
    /\ call.op = "stored"
    /\ ~call.done
    /\ call' = [ call EXCEPT !.done = TRUE,
                   !.result = image_endpoint(images, call.note_id,
                                             api_image_path(call.img_path)) ]
    /\ UNCHANGED << folder, storeVars, diskVars, passVars, pc >>

NextServe == StoreReferencedImage \/ RequestImage

SpecServe == InitServe /\ [][NextServe]_vars

\* ------------------------------------ the traversals, one iteration a step
\* The outbound links of the traversed stores: the lists of LinkLists and
\* the lists of two stored ids.
TraversalLinkLists ==
    LinkLists \cup { << a, b >> : a, b \in Range(GraphIds) }

TraversalCalls ==
    { [ op |-> "get_related_notes", at |-> "start", note_id |-> id,
        max_depth |-> d, target_id |-> id,
        st |-> [ queue |-> << >>, visited |-> {}, related |-> << >> ],
        popped |-> << >>, result |-> << >> ] :
        id \in Range(GraphIds) \cup { UnknownId }, d \in 0..MaxDepth }
    \cup
    { [ op |-> "find_path_between_notes", at |-> "start", note_id |-> id,
        max_depth |-> 0, target_id |-> t,
        st |-> [ queue |-> << >>, visited |-> {} ],
        popped |-> << >>, result |-> << >> ] :
        id \in Range(GraphIds) \cup { UnknownId },
        t \in Range(GraphIds) \cup { UnknownId } }

InitTraversal ==
    /\ InitIdle
    /\ chunks = EmptyMap
    /\ \E links \in [ DOMAIN GraphIds -> TraversalLinkLists ] :
         LET fps == [ j \in DOMAIN GraphIds |-> << "d" >> ]
         IN  /\ notes = BuiltStore(links, fps).notes
             /\ graph = BuiltStore(links, fps).graph
    /\ call \in TraversalCalls

\* get_related_notes up to the while loop.
StartRelated ==
    /\ call.op = "get_related_notes"
    /\ call.at = "start"
    /\ call' = IF call.note_id \notin DOMAIN notes
               THEN [ call EXCEPT !.at = "done", !.result = << >> ]
               ELSE [ call EXCEPT !.at = "loop",
                        !.st = [ queue |-> << << call.note_id, 0 >> >>,
                                 visited |-> { call.note_id },
                                 related |-> << >> ] ]
    /\ UNCHANGED << folder, storeVars, diskVars, passVars, pc >>

\* One iteration of its loop; call.popped lists the ids taken from the
\* queue so far.
StepRelated ==
    /\ call.op = "get_related_notes"
    /\ call.at = "loop"
    /\ call.st.queue # << >>
    /\ call' = [ call EXCEPT
                   !.st = related_step(notes, call.max_depth, call.st),
                   !.popped = Append(@, Head(call.st.queue)[1]) ]
    /\ UNCHANGED << folder, storeVars, diskVars, passVars, pc >>

ReturnRelated ==
    /\ call.op = "get_related_notes"
    /\ call.at = "loop"
    /\ call.st.queue = << >>
    /\ call' = [ call EXCEPT !.at = "done", !.result = call.st.related ]
    /\ UNCHANGED << folder, storeVars, diskVars, passVars, pc >>

\* find_path_between_notes up to the while loop.
StartPath ==
    /\ call.op = "find_path_between_notes"
    /\ call.at = "start"
    /\ call' = IF call.note_id \notin DOMAIN notes \/ call.target_id \notin DOMAIN notes
               THEN [ call EXCEPT !.at = "done", !.result = << >> ]
               ELSE IF call.note_id = call.target_id
               THEN [ call EXCEPT !.at = "done", !.result = << call.note_id >> ]
               ELSE [ call EXCEPT !.at = "loop",
                        !.st = [ queue |-> << << call.note_id, << call.note_id >> >> >>,
                                 visited |-> { call.note_id } ] ]
    /\ UNCHANGED << folder, storeVars, diskVars, passVars, pc >>

StepPath ==
    /\ call.op = "find_path_between_notes"
    /\ call.at = "loop"
    /\ call.st.queue # << >>
    /\ LET step == path_step(notes, call.target_id, call.st)
       IN  call' = [ call EXCEPT
                       !.st = step.st,
                       !.popped = Append(@, Head(call.st.queue)[1]),
                       !.at = IF step.returned THEN "done" ELSE "loop",
                       !.result = step.path ]
    /\ UNCHANGED << folder, storeVars, diskVars, passVars, pc >>

ReturnPath ==
    /\ call.op = "find_path_between_notes"
    /\ call.at = "loop"
    /\ call.st.queue = << >>
    /\ call' = [ call EXCEPT !.at = "done", !.result = << >> ]
    /\ UNCHANGED << folder, storeVars, diskVars, passVars, pc >>

NextTraversal ==
    \/ StartRelated
    \/ StepRelated
    \/ ReturnRelated
    \/ StartPath
    \/ StepPath
    \/ ReturnPath

\* A call runs in one thread, without waiting: its next step is taken.
SpecTraversal == InitTraversal /\ [][NextTraversal]_vars /\ WF_vars(NextTraversal)

\* ------------------------------------------------------------------ claims
NoteIdsOfFolder == { _generate_note_id(f) : f \in AllNotePaths(folder) }

ChunksOfNote(cs, note_id) ==
    { cs[cid] : cid \in { c \in DOMAIN cs : cs[c].note_id = note_id } }

EdgeSet(g) == Range(g.relationships)

\* The stored note of file f reflects the file as it is now.
InSync(f) ==
    /\ folder[f].present
    /\ _generate_note_id(f) \in DOMAIN notes
    /\ notes[_generate_note_id(f)].modified = folder[f].mtime
    /\ notes[_generate_note_id(f)].content =
         replace_image_paths(folder[f].content, _generate_note_id(f))

deleted_note_ids == existing_note_ids \ current_note_ids

\* C1: every chunk of the vector store, in memory and in the document on
\* disk, has the note_id of a note stored in the same vector store.
C1_ChunksHaveNotes ==
    /\ \A cid \in DOMAIN chunks : chunks[cid].note_id \in DOMAIN notes
    /\ diskVec.kind = "document" =>
         \A cid \in DOMAIN diskVec.chunks :
           diskVec.chunks[cid].note_id \in DOMAIN diskVec.notes

\* A pass has deleted a removed note and chunks are stored.
C1_Witness ==
    /\ pass_result = "ok"
    /\ deleted_note_ids # {}
    /\ DOMAIN chunks # {}

\* C2: after a completed pass the stored note ids are exactly the ids of
\* the markdown files present in the folder.
C2_NotesMatchFolder ==
    pass_result = "ok" => DOMAIN notes = NoteIdsOfFolder

\* C3: after a completed pass, a note whose file was removed is absent, has
\* no chunk left and is neither source nor target of an edge.
C3_DeletedNoteGone ==
    pass_result = "ok" =>
        \A id \in deleted_note_ids :
            /\ id \notin DOMAIN notes
            /\ ChunksOfNote(chunks, id) = {}
            /\ \A r \in EdgeSet(graph) :
                 r.source_note_id # id /\ r.target_note_id # id

\* A completed pass has deleted a note and left a non-empty graph.
C3_Witness ==
    /\ pass_result = "ok"
    /\ deleted_note_ids # {}
    /\ graph.relationships # << >>

\* S1's starting point: the folder is ingested (every file has a note in
\* sync with it, every note has a file) except for file a, which was
\* modified so that its mtime is past every stored modified timestamp.
S1_Before(a) ==
    /\ DOMAIN notes = NoteIdsOfFolder
    /\ folder[a].present
    /\ \A id \in DOMAIN notes : folder[a].mtime > notes[id].modified
    /\ \A f \in AllNotePaths(folder) \ {a} : InSync(f)

S1_After(a) ==
    /\ notes'[_generate_note_id(a)].modified = folder[a].mtime
    /\ notes'[_generate_note_id(a)].content =
         replace_image_paths(folder[a].content, _generate_note_id(a))
    /\ ChunksOfNote(chunks', _generate_note_id(a)) = Range(ProcessedChunks(folder, a))
    /\ \A f \in AllNotePaths(folder) \ {a} :
         LET id == _generate_note_id(f)
         IN  /\ notes'[id].content = notes[id].content
             /\ notes'[id].modified = notes[id].modified
             /\ ChunksOfNote(chunks', id) = ChunksOfNote(chunks, id)

\* C4: a completed pass from S1's starting point replaces the chunks of the
\* modified file and sets its modified timestamp, and leaves the content,
\* the modified timestamp and the chunks of every other note unchanged.
C4_ModifiedFileOnly ==
    [][ \A a \in NoteFiles :
          S1_Before(a) /\ pass_result' = "ok" => S1_After(a) ]_vars

\* A completed pass has re-processed one of two stored notes, and the other
\* one is in sync with its file.
C4_Witness ==
    /\ pass_result = "ok"
    /\ Len(modified_files) = 1
    /\ existing_note_ids = current_note_ids
    /\ Cardinality(current_note_ids) = 2
    /\ \A f \in NoteFiles : InSync(f)

\* C5: a completed pass that directly follows a completed pass, the folder
\* not being modified in between, re-processes no file and leaves notes
\* (content, modified), chunks, edges, clusters and images as they were.
C5_SecondPassChangesNothing ==
    [][ pass_result = "ok" /\ pass_result' = "ok" =>
          /\ modified_files' = << >>
          /\ DOMAIN notes' = DOMAIN notes
          /\ \A id \in DOMAIN notes :
               /\ notes'[id].content = notes[id].content
               /\ notes'[id].modified = notes[id].modified
          /\ chunks' = chunks
          /\ EdgeSet(graph') = EdgeSet(graph)
          /\ DOMAIN graph'.note_clusters = DOMAIN graph.note_clusters
          /\ images' = images ]_vars

\* C6: the inbound_links of every stored note are exactly the sources of
\* the edges whose target is that note.
C6_InboundLinksMatchEdges ==
    \A id \in DOMAIN notes :
        Range(notes[id].inbound_links) =
            { r.source_note_id : r \in { e \in EdgeSet(graph) : e.target_note_id = id } }

\* A note has inbound links from both notes, the other note has none.
C6_Witness ==
    /\ \E id \in DOMAIN notes : Cardinality(Range(notes[id].inbound_links)) = 2
    /\ \E id \in DOMAIN notes : notes[id].inbound_links = << >>

\* C7: every edge joins two stored notes, and its target is not an asset
\* reference.
C7_EdgesJoinStoredNotes ==
    \A r \in EdgeSet(graph) :
        /\ r.source_note_id \in DOMAIN notes
        /\ r.target_note_id \in DOMAIN notes
        /\ ~IsAssetRef(r.target_note_id)

\* The graph has edges, and a stored note has both an outbound link that is
\* an asset reference and one that is the id of a file without a note.
C7_Witness ==
    /\ graph.relationships # << >>
    /\ \E id \in DOMAIN notes :
         /\ \E t \in Range(notes[id].outbound_links) : IsAssetRef(t)
         /\ \E t \in Range(notes[id].outbound_links) :
              ~IsAssetRef(t) /\ t \notin DOMAIN notes

\* C8: for every non-empty folder path of a stored note, the cluster of
\* that folder is exactly the set of the stored notes in that folder.
C8_ClustersMatchFolders ==
    \A f \in { notes[id].folder_path : id \in DOMAIN notes } \ { << >> } :
        /\ f \in DOMAIN graph.note_clusters
        /\ Range(graph.note_clusters[f]) =
             { id \in DOMAIN notes : notes[id].folder_path = f }

\* A note in the root and a note in a folder are stored, with a cluster.
C8_Witness ==
    /\ \E id \in DOMAIN notes : notes[id].folder_path = << >>
    /\ \E id \in DOMAIN notes : notes[id].folder_path # << >>
    /\ DOMAIN graph.note_clusters # {}

\* The (relative_path, file) pairs of the images ingested for a note body.
IngestedImages(file, c) ==
    { << r, resolve_image_path(Disk(folder), file, r) >> :
        r \in Range(extract_image_paths(c))
              \cup { WithPng(x) : x \in Range(extract_excalidraw_refs(c)) } }

\* C9: every image ingested for a stored note is found by
\* lookup(note_id, relative_path), under the id of its bytes.
C9_ImagesResolvable ==
    \A id \in DOMAIN notes :
        \A im \in IngestedImages(notes[id].path, notes[id].content.raw) :
            im[2] # << >> =>
                get_image_id_by_path(images, id, im[1])
                    = { << "sha256", FileBytes(im[2]) >> }

\* C10: the two documents on disk are complete and were written by the same
\* pass.
C10_DiskDocumentsFromSamePass ==
    /\ diskVec.kind = diskImg.kind
    /\ diskVec.kind # "partial"
    /\ diskVecPass = diskImgPass

\* C11: a pass that aborts before save() leaves the documents on disk and
\* the notes, chunks, graph and images held in memory as they were before
\* the pass started.
C11_AbortedPassIsNoOp ==
    [][ pass_result' = "failed_process" /\ failures' = failures + 1 =>
          /\ UNCHANGED diskVars
          /\ notes' = notes
          /\ chunks' = chunks
          /\ graph' = graph
          /\ images' = images ]_vars

\* C13: a pass in which one modified file raised an error has skipped that
\* file and completed: every other modified file has its note, and both
\* stores were persisted as they are in memory.
C13_FileErrorSkipped ==
    pass_result = "failed_process" =>
        /\ Cardinality({ f \in Range(modified_files) : ~InSync(f) }) <= 1
        /\ diskVec = VectorDocument(notes, chunks, graph)
        /\ diskImg = ImageDocument(images)

\* C12: a reader that loads the vector-store or the media-store document
\* while a pass is running gets a complete document, never a truncated or
\* half-written one.
C12_ReaderSeesCompleteDocument ==
    call.op \in { "load_vector", "load_images" } =>
        call.result.kind \in { "document", "absent" }

\* The candidates of a reference in the order of precedence: relative to
\* the note, the note's assets folder, each attachment folder (the path,
\* then the note's assets folder in it), relative to the base path.
PrecedenceOrder(note_file, image_path) ==
    << Parent(note_file) \o image_path,
       Parent(note_file) \o << AssetsName(PathStem(note_file)), Name(image_path) >> >>
    \o [ j \in 1..(2 * Len(attachment_folders)) |->
           IF j % 2 = 1
           THEN << attachment_folders[(j + 1) \div 2] >> \o image_path
           ELSE << attachment_folders[j \div 2],
                   AssetsName(PathStem(note_file)), Name(image_path) >> ]
    \o << image_path >>

RECURSIVE FirstExisting(_, _, _)
FirstExisting(candidates, disk, i) ==
    IF i > Len(candidates) THEN << >>
    ELSE IF candidates[i] \in disk THEN candidates[i]
    ELSE FirstExisting(candidates, disk, i + 1)

\* C14: resolve_image_path returns the first candidate, in the order of
\* precedence, that exists on disk, and None (<< >>) when none exists.
C14_ResolvePrecedence ==
    call.op = "resolve_image_path" /\ call.done =>
        call.result = FirstExisting(
            PrecedenceOrder(call.note_file, call.image_path), call.disk, 1)

\* A copy relative to the note and a copy in the second attachment folder
\* both exist, and the note-relative one was returned.
C14_Witness ==
    /\ call.op = "resolve_image_path"
    /\ call.done
    /\ call.note_file = <<"d", "B.md">>
    /\ << attachment_folders[2] >> \o call.image_path \in call.disk
    /\ Parent(call.note_file) \o call.image_path \in call.disk
    /\ call.result = Parent(call.note_file) \o call.image_path

SameDirection(a, b) == a[1] * b[2] = a[2] * b[1] /\ Dot(a, b) > 0

\* The position of an element in a sequence without repetitions.
IndexOf(seq, x) == CHOOSE j \in DOMAIN seq : seq[j] = x

TitleMatches(k, title) ==
    { id \in DOMAIN notes :
        LET t == notes[id].title
            stem == str_lower(path_stem(notes[id].path))
            q == str_lower(title)
        IN  CASE k = 1 -> t = title
              [] k = 2 -> str_lower(t) = q
              [] k = 3 -> replace_spaces(str_lower(t)) = replace_spaces(q)
              [] k = 4 -> stem = q \/ stem = replace_spaces(q)
              [] OTHER -> t # << >> /\ IsSubstring(q, str_lower(t)) }

\* C16: the lookup returns a note matched by the first strategy that matches
\* any note, and None only when no strategy matches a note.
C16_FirstStrategyWins ==
    call.op = "find_note_by_title" /\ call.done =>
        LET hit == { k \in 1..5 : TitleMatches(k, call.title) # {} }
        IN  IF hit = {} THEN call.result = NotFound
            ELSE /\ call.result # NotFound
                 /\ call.result.id \in
                      TitleMatches(CHOOSE k \in hit : \A j \in hit : k <= j,
                                   call.title)
                 /\ call.result = notes[call.result.id]

\* The second note of the store has the query as its title and was returned,
\* while the first note matches the query by its stem only.
C16_Witness ==
    /\ call.op = "find_note_by_title"
    /\ call.done
    /\ call.result # NotFound
    /\ call.result.id = call.order[2]
    /\ call.order[1] \in TitleMatches(4, call.title)
    /\ call.order[1] \notin TitleMatches(1, call.title)
    /\ call.order[2] \in TitleMatches(1, call.title)

\* Two stored notes joined by an outbound or an inbound link of either.
Linked(a, b) ==
    \/ b \in Range(LinksOf(notes[a]))
    \/ a \in Range(LinksOf(notes[b]))

\* The stored notes at distance d or less from a stored note.
RECURSIVE Within(_, _)
Within(source_id, d) ==
    IF d = 0 THEN { source_id }
    ELSE LET near == Within(source_id, d - 1)
         IN  near \cup { b \in DOMAIN notes : \E a \in near : Linked(a, b) }

Reachable(source_id) == Within(source_id, Cardinality(DOMAIN notes))

Distance(source_id, b) ==
    CHOOSE d \in 0..Cardinality(DOMAIN notes) :
        /\ b \in Within(source_id, d)
        /\ \A e \in 0..(d - 1) : b \notin Within(source_id, e)

\* C17: get_related_notes returns the stored notes at distance 1 to
\* max_depth from the note, each once, the nearer ones first, and nothing
\* for a note that is not stored.
C17_RelatedWithinDepth ==
    call.op = "get_related_notes" /\ call.done =>
        IF call.note_id \notin DOMAIN notes THEN call.result = << >>
        ELSE LET ids == [ j \in DOMAIN call.result |-> call.result[j].id ]
             IN  /\ Range(ids) = Within(call.note_id, call.max_depth) \ { call.note_id }
                 /\ Len(ids) = Cardinality(Range(ids))
                 /\ \A j \in DOMAIN ids : call.result[j] = notes[ids[j]]
                 /\ \A j, k \in DOMAIN ids :
                      j < k => Distance(call.note_id, ids[j])
                                 <= Distance(call.note_id, ids[k])

\* A note at distance 1 and then a note at distance 2 were returned.
C17_Witness ==
    /\ call.op = "get_related_notes"
    /\ call.done
    /\ Len(call.result) = 2
    /\ Distance(call.note_id, call.result[1].id) = 1
    /\ Distance(call.note_id, call.result[2].id) = 2

\* C18: find_path_between_notes returns nothing when an end is not stored
\* or no path exists, the source alone when it is the target, and otherwise
\* a shortest path of linked stored notes from the source to the target.
C18_ShortestPath ==
    call.op = "find_path_between_notes" /\ call.done =>
        LET source_id == call.note_id
            target_id == call.target_id
            path == call.result
        IN  IF source_id \notin DOMAIN notes \/ target_id \notin DOMAIN notes
            THEN path = << >>
            ELSE IF source_id = target_id THEN path = << source_id >>
            ELSE IF target_id \notin Reachable(source_id) THEN path = << >>
            ELSE /\ Len(path) = Distance(source_id, target_id) + 1
                 /\ path[1] = source_id
                 /\ path[Len(path)] = target_id
                 /\ Range(path) \subseteq DOMAIN notes
                 /\ \A j \in 1..(Len(path) - 1) : Linked(path[j], path[j + 1])

\* A path through a third note was returned.
C18_Witness ==
    /\ call.op = "find_path_between_notes"
    /\ call.done
    /\ Len(call.result) = 3

\* C19: get_note_cluster returns the other stored notes of the folder of a
\* stored note, also for a note in the root.
C19_ClusterSharesFolder ==
    call.op = "get_note_cluster" /\ call.done /\ call.note_id \in DOMAIN notes =>
        { call.result[j].id : j \in DOMAIN call.result } =
            { id \in DOMAIN notes \ { call.note_id } :
                notes[id].folder_path = notes[call.note_id].folder_path }

AddedIds == { call.added[j].id : j \in DOMAIN call.added }

LastAdded(id) ==
    call.added[Max({ j \in DOMAIN call.added : call.added[j].id = id })]

\* C21: add_image is an upsert by image id: the store maps every added id
\* to the image added last with it, get_image returns that image,
\* get_image_ids lists every added id exactly once, and get_image on an id
\* never added raises KeyError with the store as it was.
C21_AddIsUpsert ==
    /\ images = [ id \in AddedIds |-> LastAdded(id) ]
    /\ call.op = "get_image" =>
         call.result = IF call.image_id \in AddedIds
                       THEN [ kind |-> "image", image |-> LastAdded(call.image_id) ]
                       ELSE [ kind |-> "KeyError" ]
    /\ call.op = "get_image_ids" =>
         /\ Len(call.result.ids) = Cardinality(AddedIds)
         /\ Range(call.result.ids) = AddedIds

C21_Witness ==
    /\ call.op = "get_image"
    /\ Len(call.added) = 3
    /\ call.added[1].id = call.image_id
    /\ call.added[3].id = call.image_id
    /\ call.added[1].content # call.added[3].content
    /\ call.added[2].id # call.image_id
    /\ call.result = [ kind |-> "image", image |-> call.added[3] ]

\* C22: in every sequence of requests of one session, a protected endpoint
\* answers 401 exactly when the session is not authenticated; only a login
\* with the configured username and password authenticates the session; a
\* login with other credentials answers 400 and leaves the session as it
\* was; a logout leaves it unauthenticated.
C22_SessionGuardsEndpoints ==
    call.op = "session" =>
        \A j \in DOMAIN call.log :
            LET e == call.log[j]
                configured == e.username = auth_username /\ e.password = auth_password
            IN  /\ e.op \in Endpoints =>
                     (e.status = 401 <=> ~is_authenticated(e.before))
                /\ is_authenticated(e.after) /\ ~is_authenticated(e.before) =>
                     e.op = "login" /\ configured
                /\ e.op = "login" /\ ~configured =>
                     e.status = 400 /\ e.after = e.before
                /\ e.op = "logout" => ~is_authenticated(e.after)

\* The ids the four strategies give for a link: exact key, key + ".md",
\* path stem, case-insensitive match against the asset entries.
StrategyHits(link, note_mapping, k) ==
    LET entries == Range(note_mapping)
    IN  CASE k = 1 -> { e.val : e \in { x \in entries : x.key = link } }
          [] k = 2 -> { e.val : e \in { x \in entries : x.key = WithMd(link) } }
          [] k = 3 -> { e.val : e \in { x \in entries :
                                          << PathStem(x.key) >> = link } }
          [] k = 4 -> { e.val : e \in { x \in entries :
                          /\ IsAssetRef(x.val)
                          /\ \/ Lower(x.key) = Lower(link)
                             \/ << LowerName(PathStem(x.key)) >> = Lower(link) } }

FirstHits(link, note_mapping) ==
    IF \A k \in 1..4 : StrategyHits(link, note_mapping, k) = {} THEN {}
    ELSE StrategyHits(link, note_mapping,
             CHOOSE k \in 1..4 :
                 /\ StrategyHits(link, note_mapping, k) # {}
                 /\ \A j \in 1..(k - 1) : StrategyHits(link, note_mapping, j) = {})

\* out lists, in the order of links, one id of the first strategy that hits
\* for every link that some strategy resolves, and nothing else.
RECURSIVE ResolvesTo(_, _, _)
ResolvesTo(links, out, note_mapping) ==
    IF links = << >> THEN out = << >>
    ELSE IF FirstHits(Head(links), note_mapping) = {}
    THEN ResolvesTo(Tail(links), out, note_mapping)
    ELSE /\ out # << >>
         /\ Head(out) \in FirstHits(Head(links), note_mapping)
         /\ ResolvesTo(Tail(links), Tail(out), note_mapping)

C24_PositionsOfOriginalText ==
    call.op = "chunk_positions" /\ call.done =>
        LET original == TextChunker_chunk_text(call.content)
        IN  \A i \in DOMAIN call.result :
                LET c == call.result[i]
                    previous_end == IF i = 1 THEN 0 ELSE call.result[i - 1].end_pos
                IN  /\ 0 <= c.start_pos
                    /\ c.start_pos <= c.end_pos
                    /\ c.end_pos <= Len(call.content)
                    /\ previous_end >= 0 =>
                         c.start_pos = find(call.content, original[i], previous_end)

\* The occurrences of the target title in a content, and those on lines
\* that begin with "#".
Occurrences(content) ==
    Cardinality({ j \in DOMAIN content : IsTarget(content[j]) })

HeaderOccurrences(content) ==
    Cardinality({ j \in DOMAIN content :
        /\ IsTarget(content[j])
        /\ content[Max({ s \in LineStarts(content) : s <= j })]
             \in { "# ", "#1, 6" } })

\* C25: the strength (in tenths) is min(3 * occurrences +
\* 2 * header_occurrences, 10); a title mentioned once, on a header line,
\* gets 5.
C25_StrengthFormula ==
    call.op = "calculate_relationship_strength" /\ call.done =>
        LET expected == 3 * Occurrences(call.source_content)
                          + 2 * HeaderOccurrences(call.source_content)
        IN  call.result = IF expected < 10 THEN expected ELSE 10

\* Chunk a ranks before chunk b for the vector q: a is more similar to q,
\* or as similar and inserted earlier.
RanksBefore(a, b, q, order) ==
    LET sa == similarity(q, chunks[a].vector)
        sb == similarity(q, chunks[b].vector)
    IN  \/ SimLess(sb, sa)
        \/ ~SimLess(sa, sb) /\ IndexOf(order, a) < IndexOf(order, b)

\* C26: the search returns min(closest, number of stored chunks) chunks,
\* the most similar ones, by non-increasing similarity, chunks of equal
\* similarity in insertion order.
C26_ClosestInOrder ==
    call.op = "closest" /\ call.done =>
        LET n == Cardinality(DOMAIN chunks)
            returned == { call.result[j].id : j \in DOMAIN call.result }
        IN  /\ Len(call.result) = IF call.closest < n THEN call.closest ELSE n
            /\ returned \subseteq DOMAIN chunks
            /\ \A i, j \in DOMAIN call.result :
                 i < j => RanksBefore(call.result[i].id, call.result[j].id,
                                      call.input_vector, call.order)
            /\ \A a \in returned, b \in (DOMAIN chunks) \ returned :
                 RanksBefore(a, b, call.input_vector, call.order)

\* More chunks were requested than the three stored; two of them are as
\* similar to the searched vector and come back in insertion order, which
\* is not the order of their ids, before a less similar one.
C26_Witness ==
    /\ call.op = "closest"
    /\ call.done
    /\ call.closest = 4
    /\ Len(call.result) = 3
    /\ call.order = << "k3", "k2", "k1" >>
    /\ call.result[1].id = "k3"
    /\ call.result[2].id = "k1"
    /\ ~SimLess(similarity(call.input_vector, chunks["k3"].vector),
                similarity(call.input_vector, chunks["k1"].vector))
    /\ SimLess(similarity(call.input_vector, chunks["k2"].vector),
               similarity(call.input_vector, chunks["k1"].vector))

\* The order of the note ids as strings; the digests are taken in the
\* order of their files.
IdRank(id) == IF id = _generate_note_id(<< "A.md" >>) THEN 1 ELSE 2

EdgeKeyLeq(a, b) ==
    \/ IdRank(a.source_note_id) < IdRank(b.source_note_id)
    \/ /\ IdRank(a.source_note_id) = IdRank(b.source_note_id)
       /\ IdRank(a.target_note_id) <= IdRank(b.target_note_id)

\* C27: in the vector-store document on disk the relationship edges are in
\* the order of (source_note_id, target_note_id).
C27_EdgesSortedOnDisk ==
    diskVec.kind = "document" =>
        LET edges == diskVec.relationships.relationships
        IN  \A i, j \in DOMAIN edges : i < j => EdgeKeyLeq(edges[i], edges[j])

\* C28: the chunks stored for a note are those of the processing that
\* produced the stored note: chunk k (from 0) of its content under the id
\* (note id, k), and no other chunk with its note_id.
C28_ChunksOfLastProcessing ==
    \A id \in DOMAIN notes :
        LET texts == chunk_text(notes[id].content)
        IN  /\ { cid \in DOMAIN chunks : chunks[cid].note_id = id }
                 = { << id, k >> : k \in 0..(Len(texts) - 1) }
            /\ \A k \in 0..(Len(texts) - 1) :
                 /\ chunks[<< id, k >>].id = << id, k >>
                 /\ chunks[<< id, k >>].text = texts[k + 1]

\* A completed pass has processed again a file that had a note before the
\* pass; its content now gives one chunk, and another stored note has two.
C28_Witness ==
    /\ pass_result = "ok"
    /\ \E f \in Range(modified_files) :
         /\ _generate_note_id(f) \in existing_note_ids
         /\ _generate_note_id(f) \in DOMAIN notes
         /\ notes[_generate_note_id(f)].modified = MaxTime
         /\ Cardinality(ChunksOfNote(chunks, _generate_note_id(f))) = 1
    /\ \E id \in DOMAIN notes : Cardinality(ChunksOfNote(chunks, id)) = 2

\* C29: a stored image is served through the URL written into the note's
\* content: the lookup with the decoded path of the URL finds the image.
C29_StoredImageServable ==
    call.op = "stored" /\ call.done =>
        /\ call.result.status = 200
        /\ call.result.image_ids = DOMAIN images
        /\ Cardinality(DOMAIN images) = 1

\* C30: every call of get_related_notes and find_path_between_notes
\* returns, and no id is taken from the queue twice.
C30_TraversalsTerminate ==
    /\ [](\A i, j \in DOMAIN call.popped : i # j => call.popped[i] # call.popped[j])
    /\ <>(call.at = "done")

\* A call has returned after taking three ids from the queue, in a store
\* where two notes link to each other, a note links to itself and a note
\* links to an id that is not stored.
C30_Witness ==
    /\ call.at = "done"
    /\ Len(call.popped) = 3
    /\ \E a, b \in DOMAIN notes :
         /\ a # b
         /\ b \in Range(notes[a].outbound_links)
         /\ a \in Range(notes[b].outbound_links)
    /\ \E a \in DOMAIN notes : a \in Range(notes[a].outbound_links)
    /\ \E a \in DOMAIN notes : UnknownId \in Range(notes[a].outbound_links)

====
